---------------------------- MODULE Spec2Model ----------------------------
(***************************************************************************)
(* BDM-Copilot retrieval subsystem: the PDF ingestor (pdf_processor.py),   *)
(* the keyword index (DocumentSearch), the vector index (vector_db.py) and *)
(* the retrieval coordinator (knowledge_base.py) with the text-generation  *)
(* engine it calls (llm_engine.py).                                        *)
(*                                                                         *)
(* Text is a sequence of one-character strings.  Offsets are Python's      *)
(* (0-based, end exclusive); Slice converts to TLA+'s 1-based sequences.   *)
(* A Python dict is a sequence of entries in insertion order.              *)
(*                                                                         *)
(* The specifications share the variables.  Spec is the life of an         *)
(* installation: restarts, builds and clears, each with the faults it can  *)
(* meet.  QuerySpec is one run of an installation that is built, cleared   *)
(* and queried with search and find_relevant_content.  RebuildSpec is an   *)
(* installation whose source files are written while time passes and that  *)
(* asks needs_rebuild.  ChunkSpec is one call of chunk_text, step by step, *)
(* for every text and configuration in bounds; ChunkFairSpec is the same   *)
(* call with the interpreter running on.  FanOutSpec, TermsSpec, IdsSpec,  *)
(* PreviewSpec and AnalyzeSpec are one call each of find_relevant_content, *)
(* _extract_search_terms, add_documents, _get_match_preview and            *)
(* analyze_discovery_notes_with_llm: the initial state holds the call with *)
(* its arguments, the action is the call running to its return.  Every     *)
(* action of the coordinator records in `last` what was called and what it *)
(* returned.                                                               *)
(***************************************************************************)
EXTENDS Integers, Sequences, FiniteSets, TLC

VARIABLES
  cache_file,       \* the cache file on disk: [state |-> "absent" | "partial" | "saved", ...]
  vector_store,     \* the persistent collection "dell_documents": its records, in insertion order
  processed_docs,   \* KnowledgeBase.processed_docs (the in-memory corpus)
  document_search,  \* KnowledgeBase.document_search: None or a DocumentSearch
  vector_db,        \* KnowledgeBase.vector_db: the VectorDatabase object's fields
  clock,            \* the time of the file system
  source_mtime,     \* st_mtime of each file of the source directory
  cache_mtime,      \* st_mtime of the cache file (0 while there is none)
  chunking,         \* a call of chunk_text under way: its arguments, locals and position
  last              \* what the last operation was and what it returned

vars == <<cache_file, vector_store, processed_docs, document_search,
          vector_db, clock, source_mtime, cache_mtime, chunking, last>>

\* Python's None (a record, so that it compares with the dicts it stands in for)
None == [none |-> TRUE]

-----------------------------------------------------------------------------
(* Python str primitives                                                   *)

Min(a, b) == IF a < b THEN a ELSE b
Max(a, b) == IF a > b THEN a ELSE b

UpperCase == <<"A","B","C","D","E","F","G","H","I","J","K","L","M",
               "N","O","P","Q","R","S","T","U","V","W","X","Y","Z">>
LowerCase == <<"a","b","c","d","e","f","g","h","i","j","k","l","m",
               "n","o","p","q","r","s","t","u","v","w","x","y","z">>
Digits == {"0","1","2","3","4","5","6","7","8","9"}
UpperSet == {UpperCase[i] : i \in 1..26}
LowerSet == {LowerCase[i] : i \in 1..26}
ToLower == [c \in UpperSet |-> LowerCase[CHOOSE i \in 1..26 : UpperCase[i] = c]]

\* str.isspace for one character
IsSpace(c) == c \in {" ", "\n", "\r", "\t"}

\* str.lower()
Lower(s) == [i \in 1..Len(s) |-> IF s[i] \in UpperSet THEN ToLower[s[i]] ELSE s[i]]

\* a slice index as Python reads it for a sequence of n items: a negative index
\* counts from the end, and the result is clipped to 0..n
PyIndex(i, n) == IF i < 0 THEN Max(0, i + n) ELSE Min(i, n)

\* s[a:b] for 0 <= a; b is clipped to len(s) as Python slicing does
Slice(s, a, b) == SubSeq(s, a + 1, Min(b, Len(s)))

\* str.strip()
Strip(s) ==
  LET keep == {i \in 1..Len(s) : ~IsSpace(s[i])}
  IN  IF keep = {} THEN <<>>
      ELSE SubSeq(s, CHOOSE i \in keep : \A j \in keep : i <= j,
                     CHOOSE i \in keep : \A j \in keep : i >= j)

\* len(s.split()): the number of maximal runs of non-whitespace
WordCount(s) ==
  Cardinality({i \in 1..Len(s) : ~IsSpace(s[i]) /\ (i = 1 \/ IsSpace(s[i - 1]))})

\* q occurs in t at 0-based offset k
OccursAt(q, t, k) ==
  /\ k >= 0
  /\ k + Len(q) <= Len(t)
  /\ \A j \in 1..Len(q) : t[k + j] = q[j]

\* `q in t`
Contains(q, t) == \E k \in 0..(Len(t) - Len(q)) : OccursAt(q, t, k)

\* t.find(q): the lowest offset, -1 when q does not occur
Find(q, t) ==
  LET hits == {k \in 0..(Len(t) - Len(q)) : OccursAt(q, t, k)}
  IN  IF hits = {} THEN -1 ELSE CHOOSE k \in hits : \A j \in hits : k <= j

\* t.rfind(c, lo, hi): the highest offset of c in t[lo:hi], -1 when there is none
RFind(c, t, lo, hi) ==
  LET hits == {k \in lo..(Min(hi, Len(t)) - 1) : t[k + 1] = c}
  IN  IF hits = {} THEN -1 ELSE CHOOSE k \in hits : \A j \in hits : k >= j

\* t.count(q): non-overlapping occurrences scanning left to right;
\* Python counts the empty string len(t) + 1 times
RECURSIVE GreedyCount(_, _)
GreedyCount(hits, width) ==
  IF hits = {} THEN 0
  ELSE LET k == CHOOSE h \in hits : \A j \in hits : h <= j
       IN  1 + GreedyCount({h \in hits : h >= k + width}, width)

Count(q, t) ==
  IF Len(q) = 0 THEN Len(t) + 1
  ELSE GreedyCount({k \in 0..(Len(t) - Len(q)) : OccursAt(q, t, k)}, Len(q))

\* " ".join(parts)
RECURSIVE JoinSpace(_)
JoinSpace(parts) ==
  IF Len(parts) = 0 THEN <<>>
  ELSE IF Len(parts) = 1 THEN parts[1]
  ELSE parts[1] \o <<" ">> \o JoinSpace(Tail(parts))

-----------------------------------------------------------------------------
(* The source directory.  Two files; each is absent, unreadable, or in one *)
(* of a few versions given by the pages the PDF reader extracts from it:   *)
(* "short" has less text than one chunk, "empty" has no text layer, "long" *)
(* has text for several chunks.                                            *)

Vxrail == "vxrail.pdf"
Powerstore == "powerstore.pdf"
FileNames == {Vxrail, Powerstore}

\* "AI  hci\n~": a whitespace run and a character outside the allowlist
VxrailShortPage == <<"A", "I", " ", " ", "h", "c", "i", "\n", "~">>

\* "hci ai. ML ai ai"
VxrailLongPage ==
  <<"h", "c", "i", " ", "a", "i", ".", " ", "M", "L", " ", "a", "i", " ", "a", "i">>

\* "ml ai ai." and "hci ML"
PowerstorePage1 == <<"m", "l", " ", "a", "i", " ", "a", "i", ".">>
PowerstorePage2 == <<"h", "c", "i", " ", "M", "L">>

\* what PdfReader yields for a readable file: the metadata (the title, or the
\* file's stem when it has none; the creation date, a datetime or None) and, per
\* page, extract_text()
FileContent ==
  [f \in FileNames |->
     IF f = Vxrail
     THEN [v \in {"short", "empty", "long"} |->
             CASE v = "short" -> [title |-> "VxRail Overview", creation_date |-> None,
                                   pages |-> <<VxrailShortPage>>]
               [] v = "empty" -> [title |-> "vxrail", creation_date |-> None,
                                   pages |-> << <<" ", " ">> >>]
               [] v = "long"  -> [title |-> "VxRail Overview", creation_date |-> None,
                                   pages |-> <<VxrailLongPage>>]]
     ELSE [v \in {"long"} |->
             [title |-> "PowerStore Guide",
              creation_date |-> [datetime |-> "2024-05-01 00:00:00"],
              pages |-> <<PowerstorePage1, PowerstorePage2>>]]]

\* the states the source directory can be in when a build looks at it: each file
\* is absent or in one of its versions, and vxrail.pdf can also be unreadable
AllDirectories ==
  {dir \in [FileNames -> {"absent", "corrupt", "short", "empty", "long"}] :
     /\ dir[Vxrail] \in {"absent", "corrupt"} \cup DOMAIN FileContent[Vxrail]
     /\ dir[Powerstore] \in {"absent"} \cup DOMAIN FileContent[Powerstore]}

\* pdf_dir.glob("*.pdf"): the files present, in the order the directory lists them
\* (the model's directory lists by name)
glob(dir) == SelectSeq(<<Powerstore, Vxrail>>, LAMBDA f : dir[f] /= "absent")

-----------------------------------------------------------------------------
(* PDFProcessor                                                            *)

\* chunk_text(text, chunk_size=1000, overlap=200): process_all_pdfs chunks with
\* the defaults.  The model runs the ingestor at one hundredth of that scale, on
\* documents of up to 16 characters: "short" is below chunk_size, "long" is not.
chunk_size == 10
overlap == 2

\* the characters the second re.sub of _clean_text keeps: \w, \s and the listed
\* punctuation
Punctuation == {".", ",", ";", ":", "!", "?", "-", "(", ")", "[", "]", "{", "}",
                "\"", "'", "/", "@", "#", "$", "%", "&", "*", "+", "=", "<", ">",
                "|", "\\"}
Allowed(c) ==
  c \in UpperSet \cup LowerSet \cup Digits \cup {"_"} \cup Punctuation \/ IsSpace(c)

Dropped == ""
NotDropped(c) == c /= Dropped

clean_text(text) ==
  LET \* re.sub(r'\s+', ' ', text): a whitespace run becomes one space
      collapsed == SelectSeq(
        [i \in 1..Len(text) |->
           IF IsSpace(text[i])
           THEN (IF i > 1 /\ IsSpace(text[i - 1]) THEN Dropped ELSE " ")
           ELSE text[i]], NotDropped)
      \* characters outside the allowlist are removed
      allowed == SelectSeq(collapsed, Allowed)
      \* '\n' and '\r' become ' ' (none is left after the first step)
      flat == [i \in 1..Len(allowed) |->
                 IF allowed[i] \in {"\n", "\r"} THEN " " ELSE allowed[i]]
  IN  Strip(flat)

\* a faulty variant of chunk_step: the next window reaches one character further
\* back than the overlap
chunk_step_reaches_back(text, size, ovl, st) ==
  LET start == st.start
      naive == start + size
      sentence_end == RFind(".", text, PyIndex(start, Len(text)), PyIndex(naive, Len(text)))
      end == IF naive < Len(text) /\ 2 * sentence_end > 2 * start + size
             THEN sentence_end + 1 ELSE naive
      body == Strip(Slice(text, PyIndex(start, Len(text)), PyIndex(end, Len(text))))
      emit == Len(body) > 0
  IN  [start    |-> IF end < Len(text) THEN Max(0, end - ovl - 1) ELSE Len(text),
       chunk_id |-> IF emit THEN st.chunk_id + 1 ELSE st.chunk_id,
       chunks   |-> IF emit
                    THEN Append(st.chunks,
                           [text |-> body, chunk_id |-> st.chunk_id,
                            start_char |-> start, end_char |-> end,
                            char_count |-> Len(body)])
                    ELSE st.chunks]

\* a faulty variant of chunk_step: the next window starts one character late
chunk_step_moves_on(text, size, ovl, st) ==
  LET start == st.start
      naive == start + size
      sentence_end == RFind(".", text, PyIndex(start, Len(text)), PyIndex(naive, Len(text)))
      end == IF naive < Len(text) /\ 2 * sentence_end > 2 * start + size
             THEN sentence_end + 1 ELSE naive
      body == Strip(Slice(text, PyIndex(start, Len(text)), PyIndex(end, Len(text))))
      emit == Len(body) > 0
  IN  [start    |-> IF end < Len(text) THEN end - ovl + 1 ELSE Len(text),
       chunk_id |-> IF emit THEN st.chunk_id + 1 ELSE st.chunk_id,
       chunks   |-> IF emit
                    THEN Append(st.chunks,
                           [text |-> body, chunk_id |-> st.chunk_id,
                            start_char |-> start, end_char |-> end,
                            char_count |-> Len(body)])
                    ELSE st.chunks]

\* a faulty variant of chunk_step: the ordinal counts the windows, emitted or not
chunk_step_counts_windows(text, size, ovl, st) ==
  LET start == st.start
      naive == start + size
      sentence_end == RFind(".", text, PyIndex(start, Len(text)), PyIndex(naive, Len(text)))
      end == IF naive < Len(text) /\ 2 * sentence_end > 2 * start + size
             THEN sentence_end + 1 ELSE naive
      body == Strip(Slice(text, PyIndex(start, Len(text)), PyIndex(end, Len(text))))
      emit == Len(body) > 0
  IN  [start    |-> IF end < Len(text) THEN end - ovl ELSE Len(text),
       chunk_id |-> st.chunk_id + 1,
       chunks   |-> IF emit
                    THEN Append(st.chunks,
                           [text |-> body, chunk_id |-> st.chunk_id,
                            start_char |-> start, end_char |-> end,
                            char_count |-> Len(body)])
                    ELSE st.chunks]

\* one iteration of the while loop of chunk_text; st = [start, chunk_id, chunks]
chunk_step(text, size, ovl, st) ==
  LET start == st.start
      naive == start + size
      sentence_end == RFind(".", text, PyIndex(start, Len(text)), PyIndex(naive, Len(text)))
      end == IF naive < Len(text) /\ 2 * sentence_end > 2 * start + size
             THEN sentence_end + 1 ELSE naive
      body == Strip(Slice(text, PyIndex(start, Len(text)), PyIndex(end, Len(text))))
      emit == Len(body) > 0
  IN  [start    |-> IF end < Len(text) THEN end - ovl ELSE Len(text),
       chunk_id |-> IF emit THEN st.chunk_id + 1 ELSE st.chunk_id,
       chunks   |-> IF emit
                    THEN Append(st.chunks,
                           [text |-> body, chunk_id |-> st.chunk_id,
                            start_char |-> start, end_char |-> end,
                            char_count |-> Len(body)])
                    ELSE st.chunks]

RECURSIVE chunk_loop(_, _, _, _)
chunk_loop(text, size, ovl, st) ==
  IF st.start < Len(text)
  THEN chunk_loop(text, size, ovl, chunk_step(text, size, ovl, st))
  ELSE st.chunks

\* a text shorter than size is one chunk, which carries no char_count
chunk_text(text, size, ovl) ==
  IF Len(text) = 0 \/ Len(text) < size
  THEN << [text |-> text, chunk_id |-> 0, start_char |-> 0, end_char |-> Len(text)] >>
  ELSE chunk_loop(text, size, ovl, [start |-> 0, chunk_id |-> 0, chunks |-> <<>>])

\* no call of chunk_text is under way
NoCall == [pc |-> "none"]

\* chunk_text(text, chunk_size, overlap) is called
Call(text, size, ovl) ==
  [pc |-> "called", text |-> text, chunk_size |-> size, overlap |-> ovl,
   start |-> 0, chunk_id |-> 0, chunks |-> <<>>]

\* extract_text_from_pdf: None when the reader raises (caught inside), else the
\* metadata, and the cleaned text of the pages that are not blank, joined by " "
NotBlank(text) == Len(Strip(text)) > 0
RECURSIVE CleanAll(_)
CleanAll(pages) ==
  IF Len(pages) = 0 THEN <<>>
  ELSE <<clean_text(Head(pages))>> \o CleanAll(Tail(pages))

extract_text_from_pdf(f, state) ==
  IF state = "corrupt" THEN None
  ELSE LET content == FileContent[f][state]
       IN  [metadata   |-> [filename |-> f, num_pages |-> Len(content.pages),
                            title |-> content.title,
                            creation_date |-> content.creation_date],
            total_text |-> JoinSpace(CleanAll(SelectSeq(content.pages, NotBlank)))]

\* the body of the for loop of process_all_pdfs for one file: None when the
\* file is skipped, else its entry of processed_docs
process_one(f, state) ==
  LET pdf_content == extract_text_from_pdf(f, state)
  IN  IF pdf_content = None THEN None
      ELSE LET chunks == chunk_text(pdf_content.total_text, chunk_size, overlap)
               tagged == [i \in 1..Len(chunks) |->
                            [source_file  |-> f,
                             source_title |-> pdf_content.metadata.title,
                             total_pages  |-> pdf_content.metadata.num_pages]
                            @@ chunks[i]]
           IN  [name |-> f, metadata |-> pdf_content.metadata,
                chunks |-> tagged, chunk_count |-> Len(tagged)]

\* every file version ingested once (process_one is a function of the file alone)
Ingested ==
  [f \in FileNames |-> [v \in DOMAIN FileContent[f] |-> process_one(f, v)]]

\* the for loop of process_all_pdfs: a file whose extraction returned None is
\* skipped
RECURSIVE ingest(_, _, _)
ingest(files, dir, acc) ==
  IF Len(files) = 0 THEN acc
  ELSE LET f == Head(files)
           doc == IF dir[f] = "corrupt" THEN None ELSE Ingested[f][dir[f]]
       IN  ingest(Tail(files), dir, IF doc = None THEN acc ELSE Append(acc, doc))

\* a faulty variant of process_all_pdfs: one unreadable file aborts the whole
\* ingestion instead of being skipped
process_all_pdfs_all_or_nothing(dir, fault) ==
  LET files == glob(dir)
  IN  IF Len(files) = 0 THEN [raised |-> FALSE, docs |-> <<>>]
      ELSE IF fault = "ingest_raises" \/ \E f \in FileNames : dir[f] = "corrupt"
           THEN [raised |-> TRUE, docs |-> <<>>]
      ELSE [raised |-> FALSE, docs |-> ingest(files, dir, <<>>)]

\* process_all_pdfs: [raised, docs].  With fault "ingest_raises" an exception
\* escapes the loop body (one raised outside the try of extract_text_from_pdf)
\* at the last file listed: docs is then the local processed_docs at the raise,
\* which no caller gets to see
process_all_pdfs(dir, fault) ==
  LET files == glob(dir)
  IN  IF Len(files) = 0 THEN [raised |-> FALSE, docs |-> <<>>]
      ELSE IF fault = "ingest_raises"
           THEN [raised |-> TRUE,
                 docs |-> ingest(SubSeq(files, 1, Len(files) - 1), dir, <<>>)]
      ELSE [raised |-> FALSE, docs |-> ingest(files, dir, <<>>)]

-----------------------------------------------------------------------------
(* DocumentSearch                                                          *)

\* relevance scores are exact fractions in lowest terms
RECURSIVE GCD(_, _)
GCD(a, b) == IF b = 0 THEN a ELSE GCD(b, a % b)
Fraction(n, d) == LET g == GCD(n, d) IN [num |-> n \div g, den |-> d \div g]
ScoreLess(a, b) == a.num * b.den < b.num * a.den

\* _flatten_chunks: every chunk of every document in corpus order, each tagged
\* (in place) with document_name
RECURSIVE flatten_chunks(_)
flatten_chunks(docs) ==
  IF Len(docs) = 0 THEN <<>>
  ELSE LET d == Head(docs)
       IN  [i \in 1..Len(d.chunks) |-> [document_name |-> d.name] @@ d.chunks[i]]
           \o flatten_chunks(Tail(docs))

\* the corpus as DocumentSearch.__init__ leaves it: its chunk dicts are the ones
\* _flatten_chunks tagged
tag_document_name(docs) ==
  [i \in 1..Len(docs) |->
     [docs[i] EXCEPT !.chunks =
        [j \in 1..Len(docs[i].chunks) |->
           [document_name |-> docs[i].name] @@ docs[i].chunks[j]]]]

DocumentSearch(docs) == [chunks |-> flatten_chunks(docs)]

Ellipsis == <<".", ".", ".">>

get_match_preview(text, query, preview_length) ==
  LET match_pos == Find(Lower(query), Lower(text))
      half == preview_length \div 2
      start == Max(0, match_pos - half)
      end == Min(Len(text), match_pos + Len(query) + half)
  IN  IF match_pos = -1
      THEN (IF Len(text) > preview_length
            THEN Slice(text, 0, preview_length) \o Ellipsis ELSE text)
      ELSE (IF start > 0 THEN Ellipsis ELSE <<>>)
           \o Slice(text, start, end)
           \o (IF end < Len(text) THEN Ellipsis ELSE <<>>)

\* sorted(..., reverse=True) / list.sort(reverse=True) over [key, item] pairs:
\* stable, by descending key
\* a faulty variant of insert_desc: an item goes before the items of equal key
RECURSIVE insert_desc_before_equal(_, _)
insert_desc_before_equal(x, sorted) ==
  IF Len(sorted) = 0 THEN <<x>>
  ELSE IF ~ScoreLess(x.key, Head(sorted).key)
       THEN <<x>> \o sorted
       ELSE <<Head(sorted)>> \o insert_desc_before_equal(x, Tail(sorted))

RECURSIVE insert_desc(_, _)
insert_desc(x, sorted) ==
  IF Len(sorted) = 0 THEN <<x>>
  ELSE IF ScoreLess(Head(sorted).key, x.key)
       THEN <<x>> \o sorted
       ELSE <<Head(sorted)>> \o insert_desc(x, Tail(sorted))

RECURSIVE sort_pairs(_, _)
sort_pairs(todo, sorted) ==
  IF Len(todo) = 0 THEN sorted
  ELSE sort_pairs(Tail(todo), insert_desc(Head(todo), sorted))

\* items sorted by descending key, where key_of[i] is the key of items[i]
sort_desc(items, key_of) ==
  LET pairs == [i \in 1..Len(items) |-> [key |-> key_of[i], item |-> items[i]]]
      sorted == sort_pairs(pairs, <<>>)
  IN  [i \in 1..Len(sorted) |-> sorted[i].item]

keyword_hit(chunk, query) == Contains(Lower(query), Lower(chunk.text))

\* keyword_search: [raised, results]; the division raises ZeroDivisionError for a
\* matching chunk whose text has no words
keyword_search(chunks, query, max_results) ==
  LET hits == SelectSeq(chunks, LAMBDA c : keyword_hit(c, query))
      matches == [i \in 1..Len(hits) |->
                    [relevance_score |->
                       Fraction(Count(Lower(query), Lower(hits[i].text)),
                                WordCount(hits[i].text)),
                     match_preview |-> get_match_preview(hits[i].text, query, 200)]
                    @@ hits[i]]
  IN  IF \E i \in 1..Len(hits) : WordCount(hits[i].text) = 0
      THEN [raised |-> TRUE, results |-> <<>>]
      ELSE [raised |-> FALSE,
            results |->
              SubSeq(sort_desc(matches, [i \in 1..Len(matches) |->
                                           matches[i].relevance_score]),
                     1, Min(max_results, Len(matches)))]

-----------------------------------------------------------------------------
(* VectorDatabase.  The embedding model and the Chroma collection are      *)
(* libraries: encode is a fixed function of the text (Embed stands in for  *)
(* it), the collection's distance is squared L2, and collection.add keeps  *)
(* the stored record when an id is already present.                        *)

NoVectorDatabase ==
  [EMBEDDINGS_AVAILABLE |-> FALSE, client |-> FALSE, collection |-> "none",
   embeddings_model |-> FALSE]

\* VectorDatabase.__init__ with the import, _initialize_database and
\* _load_embeddings_model succeeding or failing
new_vector_database(import_ok, db_ok, model_ok) ==
  IF ~import_ok THEN NoVectorDatabase
  ELSE [EMBEDDINGS_AVAILABLE |-> TRUE, client |-> db_ok,
        collection |-> IF db_ok THEN "open" ELSE "none",
        embeddings_model |-> model_ok]

is_available(db) ==
  /\ db.EMBEDDINGS_AVAILABLE
  /\ db.client
  /\ db.collection /= "none"
  /\ db.embeddings_model

Embed(text) == <<WordCount(text) % 5, Len(text) % 3>>
Distance(u, v) == (u[1] - v[1]) * (u[1] - v[1]) + (u[2] - v[2]) * (u[2] - v[2])

RECURSIVE all_chunks(_)
all_chunks(docs) ==
  IF Len(docs) = 0 THEN <<>> ELSE Head(docs).chunks \o all_chunks(Tail(docs))

\* the record add_documents prepares for the chunk at position n (0-based) of the
\* corpus; reading chunk["char_count"] or chunk["source_title"] of a chunk without
\* it raises KeyError
has_record_fields(chunk) == {"char_count", "source_title"} \subseteq DOMAIN chunk

\* str(n) for n >= 0
RECURSIVE Str(_)
Str(n) ==
  LET digit == <<"0", "1", "2", "3", "4", "5", "6", "7", "8", "9">>[(n % 10) + 1]
  IN  IF n < 10 THEN <<digit>> ELSE Str(n \div 10) \o <<digit>>

\* the characters of a document name
DocChars(doc_name) ==
  CASE doc_name = "vxrail.pdf" -> <<"v", "x", "r", "a", "i", "l", ".", "p", "d", "f">>
    [] doc_name = "powerstore.pdf" ->
         <<"p", "o", "w", "e", "r", "s", "t", "o", "r", "e", ".", "p", "d", "f">>
    [] doc_name = "a" -> <<"a">>
    [] doc_name = "a_1" -> <<"a", "_", "1">>

\* a faulty variant of record_id: the insertion counter is not part of the id
record_id_without_counter(doc_name, chunk_id, chunk_counter) ==
  DocChars(doc_name) \o <<"_">> \o Str(chunk_id)

\* f"{doc_name}_{chunk['chunk_id']}_{chunk_counter}"
record_id(doc_name, chunk_id, chunk_counter) ==
  DocChars(doc_name) \o <<"_">> \o Str(chunk_id) \o <<"_">> \o Str(chunk_counter)

chunk_record(chunk, n) ==
  [id       |-> record_id(chunk.source_file, chunk.chunk_id, n),
   document |-> chunk.text,
   metadata |-> [source_file  |-> chunk.source_file,
                 source_title |-> chunk.source_title,
                 chunk_id     |-> chunk.chunk_id,
                 page_range   |-> "Pages unknown-unknown",
                 char_count   |-> chunk.char_count,
                 start_char   |-> chunk.start_char,
                 end_char     |-> chunk.end_char]]

\* a faulty variant of collection_add: a record is stored whether or not its id
\* is already there
collection_add_appends(store, records) == store \o records

\* collection.add: records whose id is already stored are ignored
RECURSIVE collection_add(_, _)
collection_add(store, records) ==
  IF Len(records) = 0 THEN store
  ELSE collection_add(
         IF \E i \in 1..Len(store) : store[i].id = Head(records).id
         THEN store ELSE Append(store, Head(records)),
         Tail(records))

\* add_documents: [ok, store]; fault says whether encode or collection.add raises
add_documents(db, store, docs, fault) ==
  LET chunks == all_chunks(docs)
      failed == [ok |-> FALSE, store |-> store]
  IN  IF ~is_available(db) THEN failed
      ELSE IF \E i \in 1..Len(chunks) : ~has_record_fields(chunks[i]) THEN failed
      ELSE IF Len(chunks) = 0 THEN failed
      ELSE IF fault = "encode_fails" THEN failed
      ELSE IF fault = "store_fails" \/ db.collection = "stale" THEN failed
      ELSE [ok |-> TRUE,
            store |-> collection_add(store,
                        [i \in 1..Len(chunks) |-> chunk_record(chunks[i], i - 1)])]

\* semantic_search: the max_results nearest records, nearest first; [] when the
\* index is unavailable or the embedding or the query raises
semantic_search(db, store, query, max_results, fault) ==
  IF ~is_available(db) THEN <<>>
  ELSE IF fault = "encode_fails" THEN <<>>
  ELSE IF fault = "store_fails" \/ db.collection = "stale" THEN <<>>
  ELSE LET q == Embed(query)
           found == [i \in 1..Len(store) |->
                       [text             |-> store[i].document,
                        metadata         |-> store[i].metadata,
                        similarity_score |->
                          [num |-> 1 - Distance(q, Embed(store[i].document)),
                           den |-> 1],
                        source_file      |-> store[i].metadata.source_file,
                        source_title     |-> store[i].metadata.source_title]]
       IN  SubSeq(sort_desc(found, [i \in 1..Len(found) |-> found[i].similarity_score]),
                  1, Min(max_results, Len(found)))

\* clear_database: [ok, store, db]; delete_collection, then create_collection
clear_database(db, store, fault) ==
  IF ~is_available(db) THEN [ok |-> FALSE, store |-> store, db |-> db]
  ELSE IF fault = "delete_fails" \/ db.collection = "stale"
       THEN [ok |-> FALSE, store |-> store, db |-> db]
  ELSE IF fault = "create_fails"
       THEN [ok |-> FALSE, store |-> <<>>, db |-> [db EXCEPT !.collection = "stale"]]
  ELSE [ok |-> TRUE, store |-> <<>>, db |-> db]

-----------------------------------------------------------------------------
(* KnowledgeBase                                                           *)

\* json.dump(data, default=str) followed by json.load: a datetime comes back as
\* its str(), everything else the model keeps is a str, an int or None
json_value(v) == IF "datetime" \in DOMAIN v THEN [str |-> v.datetime] ELSE v
json_round_trip(docs) ==
  [i \in 1..Len(docs) |->
     [docs[i] EXCEPT !.metadata.creation_date = json_value(@)]]

AbsentFile == [state |-> "absent"]
PartialFile == [state |-> "partial"]
SavedFile(docs) == [state |-> "saved", data |-> json_round_trip(docs)]

\* _load_cache: {} when the file is absent or json.load raises
load_cache(file) == IF file.state = "saved" THEN file.data ELSE <<>>

\* _save_cache: [ok, file]; open(..., 'w') truncates, so a failure after the open
\* leaves a partial file
save_cache(file, data, fault) ==
  IF fault = "open_fails" THEN [ok |-> FALSE, file |-> file]
  ELSE IF fault = "write_fails" THEN [ok |-> FALSE, file |-> PartialFile]
  ELSE [ok |-> TRUE, file |-> SavedFile(data)]

is_initialized(docs) == Len(docs) > 0

\* a faulty variant of needs_rebuild: a document as old as the cache counts as
\* newer
needs_rebuild_not_older(docs, file, file_mtime, dir, mtime) ==
  \/ Len(docs) = 0
  \/ file.state = "absent"
  \/ \E i \in 1..Len(glob(dir)) : mtime[glob(dir)[i]] >= file_mtime

\* needs_rebuild: dir is the source directory it lists, mtime the modification
\* times of its files, file_mtime the cache file's
needs_rebuild(docs, file, file_mtime, dir, mtime) ==
  IF Len(docs) = 0 THEN TRUE
  ELSE IF file.state = "absent" THEN TRUE
  ELSE \E i \in 1..Len(glob(dir)) : mtime[glob(dir)[i]] > file_mtime

\* a faulty variant of search: the is_initialized guard is missing
search_unguarded(docs, index, db, store, query, search_type, max_results, fault) ==
  IF search_type = "semantic" /\ is_available(db)
  THEN [raised |-> FALSE,
        results |-> semantic_search(db, store, query, max_results, fault)]
  ELSE IF index = None THEN [raised |-> TRUE, results |-> <<>>]
  ELSE keyword_search(index.chunks, query, max_results)

\* a faulty variant of search: semantic mode goes to the vector index without
\* asking is_available
search_without_fallback(docs, index, db, store, query, search_type, max_results, fault) ==
  IF ~is_initialized(docs) THEN [raised |-> FALSE, results |-> <<>>]
  ELSE IF search_type = "semantic"
       THEN [raised |-> FALSE,
             results |-> semantic_search(db, store, query, max_results, fault)]
  ELSE IF index = None THEN [raised |-> TRUE, results |-> <<>>]
  ELSE keyword_search(index.chunks, query, max_results)

\* search: [raised, results]
search(docs, index, db, store, query, search_type, max_results, fault) ==
  IF ~is_initialized(docs) THEN [raised |-> FALSE, results |-> <<>>]
  ELSE IF search_type = "semantic" /\ is_available(db)
       THEN [raised |-> FALSE,
             results |-> semantic_search(db, store, query, max_results, fault)]
  ELSE IF index = None THEN [raised |-> TRUE, results |-> <<>>]
  ELSE keyword_search(index.chunks, query, max_results)

\* str.split(): the maximal runs of non-whitespace, in order
RECURSIVE Split(_)
Split(s) ==
  LET body == {i \in 1..Len(s) : ~IsSpace(s[i])}
  IN  IF body = {} THEN <<>>
      ELSE LET first == CHOOSE i \in body : \A j \in body : i <= j
               gaps == {i \in first..Len(s) : IsSpace(s[i])}
               stop == IF gaps = {} THEN Len(s) + 1
                       ELSE CHOOSE i \in gaps : \A j \in gaps : i <= j
           IN  <<SubSeq(s, first, stop - 1)>> \o Split(SubSeq(s, stop, Len(s)))

dell_terms ==
  << <<"v", "x", "r", "a", "i", "l">>,
     <<"p", "o", "w", "e", "r", "s", "t", "o", "r", "e">>,
     <<"p", "o", "w", "e", "r", "f", "l", "e", "x">>,
     <<"p", "o", "w", "e", "r", "s", "c", "a", "l", "e">>,
     <<"p", "r", "o", "s", "u", "p", "p", "o", "r", "t">>,
     <<"v", "m", "w", "a", "r", "e">>,
     <<"h", "c", "i">>,
     <<"h", "y", "p", "e", "r", "c", "o", "n", "v", "e", "r", "g", "e", "d">>,
     <<"s", "t", "o", "r", "a", "g", "e">>,
     <<"c", "o", "m", "p", "u", "t", "e">>,
     <<"v", "i", "r", "t", "u", "a", "l", "i", "z", "a", "t", "i", "o", "n">>,
     <<"c", "l", "o", "u", "d">>,
     <<"b", "a", "c", "k", "u", "p">>,
     <<"r", "e", "p", "l", "i", "c", "a", "t", "i", "o", "n">>,
     <<"a", "i">>,
     <<"m", "l">> >>

\* the stop words a token longer than 4 characters can equal
stop_words ==
  { <<"w", "o", "u", "l", "d">>, <<"c", "o", "u", "l", "d">>,
    <<"s", "h", "o", "u", "l", "d">>,
    <<"t", "h", "a", "t">>, <<"t", "h", "i", "s">>, <<"w", "i", "t", "h">>,
    <<"f", "r", "o", "m">>, <<"t", "h", "e", "y">>, <<"h", "a", "v", "e">>,
    <<"b", "e", "e", "n">>, <<"w", "i", "l", "l">> }

important_word(w) == Len(w) > 4 /\ w \notin stop_words

\* a faulty variant of extract_search_terms: every important word is a term,
\* not only the first ten
extract_every_important_word(text) ==
  LET text_lower == Lower(text)
      important_words == SelectSeq(Split(text_lower), important_word)
  IN  {dell_terms[i] : i \in {j \in 1..Len(dell_terms) : Contains(dell_terms[j], text_lower)}}
      \cup {important_words[i] : i \in 1..Len(important_words)}

\* _extract_search_terms, before list(set(...)) fixes an order: the set of terms
extract_search_terms(text) ==
  LET text_lower == Lower(text)
      important_words == SelectSeq(Split(text_lower), important_word)
  IN  {dell_terms[i] : i \in {j \in 1..Len(dell_terms) : Contains(dell_terms[j], text_lower)}}
      \cup {important_words[i] : i \in 1..Min(10, Len(important_words))}

\* the orders list(set(found_terms)) can come out in: any
RECURSIVE Orders(_)
Orders(S) ==
  IF S = {} THEN {<<>>}
  ELSE UNION {{<<x>> \o p : p \in Orders(S \ {x})} : x \in S}

\* a faulty variant of chunk_key: the term that found the chunk is part of the key
chunk_key_with_term(r) ==
  <<r.source_file,
    IF "metadata" \in DOMAIN r THEN r.metadata.chunk_id ELSE r.chunk_id,
    r.search_term>>

\* the key _deduplicate_results builds: "{source_file}_{chunk_id}", the chunk_id
\* taken from the result's metadata when it has one
chunk_key(r) ==
  <<r.source_file,
    IF "metadata" \in DOMAIN r THEN r.metadata.chunk_id ELSE r.chunk_id>>

RECURSIVE keep_first(_, _, _)
keep_first(results, seen, unique) ==
  IF Len(results) = 0 THEN unique
  ELSE LET r == Head(results)
       IN  IF chunk_key(r) \in seen
           THEN keep_first(Tail(results), seen, unique)
           ELSE keep_first(Tail(results), seen \cup {chunk_key(r)}, Append(unique, r))

result_score(r) ==
  IF "similarity_score" \in DOMAIN r THEN r.similarity_score
  ELSE IF "relevance_score" \in DOMAIN r THEN r.relevance_score
  ELSE [num |-> 0, den |-> 1]

deduplicate_results(results) ==
  LET unique_results == keep_first(results, {}, <<>>)
  IN  sort_desc(unique_results,
                [i \in 1..Len(unique_results) |-> result_score(unique_results[i])])

\* the for loop of find_relevant_content over search_terms[:5]:
\* [raised, results], each result tagged with its term
RECURSIVE fan_out(_, _, _, _, _, _, _)
fan_out(docs, index, db, store, terms, fault, acc) ==
  IF Len(terms) = 0 THEN [raised |-> FALSE, results |-> acc]
  ELSE LET term == Head(terms)
           found == search(docs, index, db, store, term,
                           IF is_available(db) THEN "semantic" ELSE "keyword",
                           3, fault)
       IN  IF found.raised THEN [raised |-> TRUE, results |-> <<>>]
           ELSE fan_out(docs, index, db, store, Tail(terms), fault,
                        acc \o [i \in 1..Len(found.results) |->
                                  [search_term |-> term] @@ found.results[i]])

\* a faulty variant of find_relevant_content: every extracted term is searched,
\* not only the first five
find_searches_every_term(docs, index, db, store, discovery_notes, max_results, search_terms, fault) ==
  IF Len(Strip(discovery_notes)) = 0
  THEN [raised |-> FALSE, results |-> <<>>, search_terms |-> <<>>, unique |-> 0]
  ELSE LET all_results == fan_out(docs, index, db, store, search_terms, fault, <<>>)
           unique_results == deduplicate_results(all_results.results)
       IN  IF all_results.raised
           THEN [raised |-> TRUE, results |-> <<>>, search_terms |-> <<>>, unique |-> 0]
           ELSE [raised |-> FALSE,
                 results |-> SubSeq(unique_results, 1,
                                    Min(max_results, Len(unique_results))),
                 search_terms |-> search_terms,
                 unique |-> Len(unique_results)]

\* find_relevant_content with search_terms in the given order:
\* [raised, results, search_terms, unique (the chunks the summary counts)]
find_relevant_content(docs, index, db, store, discovery_notes, max_results, search_terms, fault) ==
  IF Len(Strip(discovery_notes)) = 0
  THEN [raised |-> FALSE, results |-> <<>>, search_terms |-> <<>>, unique |-> 0]
  ELSE LET all_results == fan_out(docs, index, db, store,
                                  SubSeq(search_terms, 1, Min(5, Len(search_terms))),
                                  fault, <<>>)
           unique_results == deduplicate_results(all_results.results)
       IN  IF all_results.raised
           THEN [raised |-> TRUE, results |-> <<>>, search_terms |-> <<>>, unique |-> 0]
           ELSE [raised |-> FALSE,
                 results |-> SubSeq(unique_results, 1,
                                    Min(max_results, Len(unique_results))),
                 search_terms |-> search_terms,
                 unique |-> Len(unique_results)]

\* a faulty variant of build_knowledge_base: the corpus and the index are assigned
\* before the cache is written
build_assigns_before_save(kb, file, store, dir, use_embeddings, fault) ==
  LET unchanged == [processed_docs |-> kb.processed_docs,
                    document_search |-> kb.document_search,
                    cache_file |-> file, vector_store |-> store]
      ingestion == process_all_pdfs(dir, fault)
      saved == save_cache(file, ingestion.docs, fault)
      loaded == tag_document_name(ingestion.docs)
      assigned == [processed_docs |-> loaded,
                   document_search |-> DocumentSearch(ingestion.docs)]
  IN  IF ingestion.raised
      THEN [ok |-> FALSE, why |-> "exception"] @@ unchanged
      ELSE IF Len(ingestion.docs) = 0
      THEN [ok |-> FALSE, why |-> "no documents"] @@ unchanged
      ELSE IF saved.ok
      THEN [ok |-> TRUE, why |-> "built", cache_file |-> saved.file,
            vector_store |->
              IF use_embeddings /\ is_available(kb.vector_db)
              THEN add_documents(kb.vector_db, store, loaded, fault).store
              ELSE store] @@ assigned
      ELSE [ok |-> FALSE, why |-> "save failed", cache_file |-> saved.file]
           @@ assigned @@ unchanged

\* a faulty variant of build_knowledge_base: when ingestion raises, the documents
\* ingested before the exception are loaded
build_keeps_partial_corpus(kb, file, store, dir, use_embeddings, fault) ==
  LET unchanged == [processed_docs |-> kb.processed_docs,
                    document_search |-> kb.document_search,
                    cache_file |-> file, vector_store |-> store]
      ingestion == process_all_pdfs(dir, fault)
      saved == save_cache(file, ingestion.docs, fault)
      loaded == tag_document_name(ingestion.docs)
  IN  IF ingestion.raised
      THEN [ok |-> FALSE, why |-> "exception", processed_docs |-> loaded,
            document_search |-> DocumentSearch(ingestion.docs)] @@ unchanged
      ELSE IF Len(ingestion.docs) = 0
      THEN [ok |-> FALSE, why |-> "no documents"] @@ unchanged
      ELSE IF saved.ok
      THEN [ok |-> TRUE, why |-> "built",
            processed_docs |-> loaded,
            document_search |-> DocumentSearch(ingestion.docs),
            cache_file |-> saved.file,
            vector_store |->
              IF use_embeddings /\ is_available(kb.vector_db)
              THEN add_documents(kb.vector_db, store, loaded, fault).store
              ELSE store]
      ELSE [ok |-> FALSE, why |-> "save failed", cache_file |-> saved.file] @@ unchanged

\* build_knowledge_base on the coordinator kb = [processed_docs, document_search,
\* vector_db] and the disk; dir is the source directory, fault what fails during
\* the call: [ok, why (the return statement taken), processed_docs,
\* document_search, cache_file, vector_store]
build_knowledge_base(kb, file, store, dir, use_embeddings, fault) ==
  LET unchanged == [processed_docs |-> kb.processed_docs,
                    document_search |-> kb.document_search,
                    cache_file |-> file, vector_store |-> store]
      ingestion == process_all_pdfs(dir, fault)
      saved == save_cache(file, ingestion.docs, fault)
      loaded == tag_document_name(ingestion.docs)
  IN  IF ingestion.raised
      THEN [ok |-> FALSE, why |-> "exception"] @@ unchanged
      ELSE IF Len(ingestion.docs) = 0
      THEN [ok |-> FALSE, why |-> "no documents"] @@ unchanged
      ELSE IF saved.ok
      THEN [ok |-> TRUE, why |-> "built",
            processed_docs |-> loaded,
            document_search |-> DocumentSearch(ingestion.docs),
            cache_file |-> saved.file,
            vector_store |->
              IF use_embeddings /\ is_available(kb.vector_db)
              THEN add_documents(kb.vector_db, store, loaded, fault).store
              ELSE store]
      ELSE [ok |-> FALSE, why |-> "save failed", cache_file |-> saved.file] @@ unchanged

\* a faulty variant of clear_cache: the corpus is emptied and the keyword index
\* is kept
clear_cache_keeps_index(kb, file, store, fault) ==
  LET cleared == clear_database(kb.vector_db, store, fault)
  IN  IF file.state /= "absent" /\ fault = "unlink_fails"
      THEN [ok |-> FALSE, processed_docs |-> kb.processed_docs,
            document_search |-> kb.document_search, cache_file |-> file,
            vector_store |-> store, vector_db |-> kb.vector_db]
      ELSE [ok |-> TRUE, processed_docs |-> <<>>,
            document_search |-> kb.document_search,
            cache_file |-> AbsentFile,
            vector_store |-> IF is_available(kb.vector_db) THEN cleared.store ELSE store,
            vector_db |-> IF is_available(kb.vector_db) THEN cleared.db ELSE kb.vector_db]

\* clear_cache: [ok, processed_docs, document_search, cache_file, vector_store, vector_db]
clear_cache(kb, file, store, fault) ==
  LET cleared == clear_database(kb.vector_db, store, fault)
  IN  IF file.state /= "absent" /\ fault = "unlink_fails"
      THEN [ok |-> FALSE, processed_docs |-> kb.processed_docs,
            document_search |-> kb.document_search, cache_file |-> file,
            vector_store |-> store, vector_db |-> kb.vector_db]
      ELSE [ok |-> TRUE, processed_docs |-> <<>>, document_search |-> None,
            cache_file |-> AbsentFile,
            vector_store |-> IF is_available(kb.vector_db) THEN cleared.store ELSE store,
            vector_db |-> IF is_available(kb.vector_db) THEN cleared.db ELSE kb.vector_db]

\* the build got to open(self.cache_file, 'w'), which creates or truncates the
\* file and so sets its modification time, whether or not json.dump then fails
opens_cache(why, fault) ==
  why = "built" \/ (why = "save failed" /\ fault /= "open_fails")

\* KnowledgeBase.__init__: [processed_docs, document_search]
new_knowledge_base(file) ==
  LET docs == load_cache(file)
  IN  IF Len(docs) > 0
      THEN [processed_docs |-> tag_document_name(docs),
            document_search |-> DocumentSearch(docs)]
      ELSE [processed_docs |-> <<>>, document_search |-> None]

-----------------------------------------------------------------------------
(* The inputs the operations are called with                               *)

MaxResults == 3

\* the file system's clock runs from 0 to MaxClock
MaxClock == 2

QueryAI == <<"A", "I">>
QueryHci == <<"h", "c", "i">>
QueryEmpty == <<>>
Queries == {QueryAI, QueryHci, QueryEmpty}

NotesBlank == <<" ", " ">>
NotesMlAi == <<"M", "L", " ", "a", "i">>
Notes == {NotesBlank, NotesMlAi}

SearchTypes == {"keyword", "semantic"}

\* what can fail during a call: nothing, or one of the steps it takes
BuildFaults == {"none", "ingest_raises", "open_fails", "write_fails",
                "encode_fails", "store_fails"}
ClearFaults == {"none", "unlink_fails", "delete_fails", "create_fails"}
SearchFaults == {"none", "encode_fails", "store_fails"}

\* the installations: all of chromadb, the store and the model work; the import
\* fails; the embedding model fails to load
Installations == {<<TRUE, TRUE, TRUE>>, <<FALSE, FALSE, FALSE>>, <<TRUE, TRUE, FALSE>>}

KB == [processed_docs |-> processed_docs, document_search |-> document_search,
       vector_db |-> vector_db]

-----------------------------------------------------------------------------
(* The state after KnowledgeBase() in a fresh installation: no cache file  *)
(* and an empty vector collection.                                         *)

Init ==
  /\ cache_file = AbsentFile
  /\ vector_store = <<>>
  /\ processed_docs = <<>>
  /\ document_search = None
  /\ \E i \in Installations : vector_db = new_vector_database(i[1], i[2], i[3])
  /\ clock = 0
  /\ source_mtime = [f \in FileNames |-> 0]
  /\ cache_mtime = 0
  /\ chunking = NoCall
  /\ last = [op |-> "construct"]

\* the process is restarted: a new KnowledgeBase (and VectorDatabase) is built
\* from what is on disk
Construct(import_ok, db_ok, model_ok) ==
  LET kb == new_knowledge_base(cache_file)
  IN  /\ processed_docs' = kb.processed_docs
      /\ document_search' = kb.document_search
      /\ vector_db' = new_vector_database(import_ok, db_ok, model_ok)
      /\ last' = [op |-> "construct"]
      /\ UNCHANGED <<cache_file, vector_store, clock, source_mtime, cache_mtime, chunking>>

\* build_knowledge_base(use_embeddings) is called; `embedded` says that the build
\* got to call add_documents, `again` that the call before it was a build of the
\* same directory that called add_documents and met no fault
Build(dir, use_embeddings, fault) ==
  \E r \in {build_knowledge_base(KB, cache_file, vector_store, dir,
                                use_embeddings, fault)} :
      /\ processed_docs' = r.processed_docs
      /\ document_search' = r.document_search
      /\ cache_file' = r.cache_file
      /\ vector_store' = r.vector_store
      /\ cache_mtime' = IF opens_cache(r.why, fault) THEN clock ELSE cache_mtime
      /\ last' = [op |-> "build", dir |-> dir, fault |-> fault, ok |-> r.ok,
                  embedded |-> r.ok /\ use_embeddings /\ is_available(vector_db),
                  again |-> last.op = "build" /\ last.dir = dir
                            /\ last.embedded /\ last.fault = "none"]
      /\ UNCHANGED <<vector_db, clock, source_mtime, chunking>>

ClearCache(fault) ==
  \E r \in {clear_cache(KB, cache_file, vector_store, fault)} :
      /\ processed_docs' = r.processed_docs
      /\ document_search' = r.document_search
      /\ cache_file' = r.cache_file
      /\ vector_store' = r.vector_store
      /\ vector_db' = r.vector_db
      /\ cache_mtime' = IF r.cache_file = AbsentFile THEN 0 ELSE cache_mtime
      /\ last' = [op |-> "clear", ok |-> r.ok]
      /\ UNCHANGED <<clock, source_mtime, chunking>>

Search(query, search_type, max_results, fault) ==
  \E r \in {search(processed_docs, document_search, vector_db, vector_store,
                  query, search_type, max_results, fault)} :
      /\ last' = [op |-> "search", query |-> query, search_type |-> search_type,
                  max_results |-> max_results, fault |-> fault,
                  raised |-> r.raised, results |-> r.results]
      /\ UNCHANGED <<cache_file, vector_store, processed_docs, document_search,
                     vector_db, clock, source_mtime, cache_mtime, chunking>>

FindRelevantContent(discovery_notes, max_results, search_terms, fault) ==
  \E r \in {find_relevant_content(processed_docs, document_search, vector_db,
                                 vector_store, discovery_notes, max_results,
                                 search_terms, fault)} :
      /\ last' = [op |-> "find", discovery_notes |-> discovery_notes,
                  max_results |-> max_results, fault |-> fault,
                  raised |-> r.raised, results |-> r.results,
                  search_terms |-> r.search_terms, unique |-> r.unique]
      /\ UNCHANGED <<cache_file, vector_store, processed_docs, document_search,
                     vector_db, clock, source_mtime, cache_mtime, chunking>>

\* the directories the builds of an installation's life find
Directories == {dir \in AllDirectories : dir[Vxrail] /= "empty"}

\* the life of an installation: restarts, builds and clears, with their faults
Next ==
  \/ \E i \in Installations : Construct(i[1], i[2], i[3])
  \/ \E dir \in Directories : \E use_embeddings \in BOOLEAN :
       \E fault \in IF use_embeddings THEN BuildFaults
                    ELSE BuildFaults \ {"encode_fails", "store_fails"} :
         Build(dir, use_embeddings, fault)
  \/ \E fault \in ClearFaults : ClearCache(fault)

Spec == Init /\ [][Next]_vars

\* time passes
Tick ==
  /\ clock < MaxClock
  /\ clock' = clock + 1
  /\ UNCHANGED <<cache_file, vector_store, processed_docs, document_search,
                 vector_db, source_mtime, cache_mtime, last, chunking>>

\* a file of the source directory is written (created or replaced)
Touch(f) ==
  /\ source_mtime' = [source_mtime EXCEPT ![f] = clock]
  /\ last' = [op |-> "touch", file |-> f]
  /\ UNCHANGED <<cache_file, vector_store, processed_docs, document_search,
                 vector_db, clock, cache_mtime, chunking>>

\* needs_rebuild() is called; `after` is the operation it follows
NeedsRebuild(dir) ==
  /\ last' = [op |-> "needs_rebuild", dir |-> dir,
              result |-> needs_rebuild(processed_docs, cache_file, cache_mtime,
                                       dir, source_mtime),
              after |-> IF last.op = "needs_rebuild" THEN last.after ELSE last]
  /\ UNCHANGED <<cache_file, vector_store, processed_docs, document_search,
                 vector_db, clock, source_mtime, cache_mtime, chunking>>

\* the directories of an installation whose sources change over time
RebuildDirectories ==
  {dir \in AllDirectories :
     dir[Powerstore] \in {"absent", "long"} /\ dir[Vxrail] \in {"absent", "short"}}

\* an installation that is built and cleared while time passes and source files
\* are written, and that asks needs_rebuild
RebuildNext ==
  \/ \E dir \in RebuildDirectories :
       \E fault \in {"none", "open_fails", "write_fails"} : Build(dir, FALSE, fault)
  \/ \E fault \in {"none", "unlink_fails"} : ClearCache(fault)
  \/ Tick
  \/ \E f \in FileNames : Touch(f)
  \/ \E dir \in RebuildDirectories : NeedsRebuild(dir)

RebuildSpec == Init /\ [][RebuildNext]_vars

\* the directories the builds of a queried installation find
QueryDirectories ==
  {dir \in AllDirectories :
     \/ dir[Powerstore] = "absent" /\ dir[Vxrail] \in {"absent", "empty", "long"}
     \/ dir[Powerstore] = "long" /\ dir[Vxrail] \in {"short", "long"}}

\* one run of an installation that is built, queried and cleared
QueryNext ==
  \/ \E dir \in QueryDirectories : \E fault \in {"none", "ingest_raises"} :
       Build(dir, TRUE, fault)
  \/ \E fault \in {"none", "delete_fails"} : ClearCache(fault)
  \/ \E query \in Queries : \E max_results \in 1..MaxResults :
       \E search_type \in SearchTypes :
         \E fault \in IF search_type = "semantic" THEN SearchFaults ELSE {"none"} :
           Search(query, search_type, max_results, fault)
  \/ \E discovery_notes \in Notes : \E max_results \in 1..MaxResults :
       \E search_terms \in Orders(extract_search_terms(discovery_notes)) :
         \E fault \in SearchFaults :
           FindRelevantContent(discovery_notes, max_results, search_terms, fault)

QuerySpec == Init /\ [][QueryNext]_vars

-----------------------------------------------------------------------------
(* chunk_text as the steps of one call: the entry test, the iterations of  *)
(* the while loop, the return.                                             *)

\* the texts chunk_text is called with: what _clean_text can return (no space at
\* either end, no two spaces in a row), of up to MaxTextLen characters
MaxTextLen == 7
Alphabet == {"a", " ", "."}
Texts ==
  {t \in UNION {[1..n -> Alphabet] : n \in 0..MaxTextLen} : clean_text(t) = t}

\* the configurations: 1 <= chunk_size <= MaxChunkSize, 0 <= overlap < chunk_size
MaxChunkSize == 6
Configurations ==
  {c \in (1..MaxChunkSize) \X (0..(MaxChunkSize - 1)) : c[2] < c[1]}

\* a loop that has emitted MaxChunks chunks is followed no further
MaxChunks == 8

\* lines 78-83: the text that is empty or shorter than chunk_size is returned as
\* one chunk; otherwise the locals of the loop are set
ChunkEnter ==
  /\ chunking.pc = "called"
  /\ chunking' =
       IF Len(chunking.text) = 0 \/ Len(chunking.text) < chunking.chunk_size
       THEN [chunking EXCEPT
               !.pc = "returned",
               !.chunks = << [text |-> chunking.text, chunk_id |-> 0,
                              start_char |-> 0, end_char |-> Len(chunking.text)] >>]
       ELSE [chunking EXCEPT !.pc = "loop"]
  /\ UNCHANGED <<cache_file, vector_store, processed_docs, document_search,
                 vector_db, clock, source_mtime, cache_mtime, last>>

\* lines 85-107: one iteration of the while loop
ChunkIterate ==
  /\ chunking.pc = "loop"
  /\ chunking.start < Len(chunking.text)
  /\ Len(chunking.chunks) < MaxChunks
  /\ \E st \in {chunk_step(chunking.text, chunking.chunk_size, chunking.overlap,
                           chunking)} :
       chunking' = [chunking EXCEPT !.start = st.start, !.chunk_id = st.chunk_id,
                                    !.chunks = st.chunks]
  /\ UNCHANGED <<cache_file, vector_store, processed_docs, document_search,
                 vector_db, clock, source_mtime, cache_mtime, last>>

\* line 109: the loop is left and chunks is returned
ChunkReturn ==
  /\ chunking.pc = "loop"
  /\ chunking.start >= Len(chunking.text)
  /\ chunking' = [chunking EXCEPT !.pc = "returned"]
  /\ UNCHANGED <<cache_file, vector_store, processed_docs, document_search,
                 vector_db, clock, source_mtime, cache_mtime, last>>

\* one call of chunk_text, for every text and configuration
ChunkInit ==
  /\ cache_file = AbsentFile
  /\ vector_store = <<>>
  /\ processed_docs = <<>>
  /\ document_search = None
  /\ vector_db = NoVectorDatabase
  /\ clock = 0
  /\ source_mtime = [f \in FileNames |-> 0]
  /\ cache_mtime = 0
  /\ \E text \in Texts : \E c \in Configurations :
       chunking = Call(text, c[1], c[2])
  /\ last = [op |-> "construct"]

ChunkNext == ChunkEnter \/ ChunkIterate \/ ChunkReturn

ChunkSpec == ChunkInit /\ [][ChunkNext]_vars

\* the call runs on: the interpreter takes the next step of chunk_text whenever
\* there is one
ChunkFairSpec == ChunkSpec /\ WF_vars(ChunkNext)

-----------------------------------------------------------------------------
(* find_relevant_content over a built knowledge base, for notes with more  *)
(* terms than the five it searches.                                        *)

\* "hci ai ML vmware cloud backup": six vocabulary terms, three of them also
\* tokens longer than 4 characters
NotesSixTerms ==
  <<"h", "c", "i", " ", "a", "i", " ", "M", "L", " ", "v", "m", "w", "a", "r", "e",
    " ", "c", "l", "o", "u", "d", " ", "b", "a", "c", "k", "u", "p">>
FanOutNotes == {NotesBlank, NotesMlAi, NotesSixTerms}

\* both documents in their long versions
FullDirectory == [f \in FileNames |-> "long"]

\* the calls find_relevant_content(discovery_notes, max_results) that can be
\* made, each with an order in which the extracted terms come out of the set
FanOutCalls ==
  UNION {{[op |-> "call", discovery_notes |-> discovery_notes,
           max_results |-> max_results, search_terms |-> search_terms] :
            max_results \in 1..MaxResults,
            search_terms \in Orders(extract_search_terms(discovery_notes))} :
         discovery_notes \in FanOutNotes}

\* the installation after KnowledgeBase() and a successful
\* build_knowledge_base(use_embeddings=True) over the full directory, with the
\* vector index available or not, at the moment find_relevant_content is called
FanOutInit ==
  \E i \in {<<TRUE, TRUE, TRUE>>, <<FALSE, FALSE, FALSE>>} :
    \E r \in {build_knowledge_base(
                [processed_docs |-> <<>>, document_search |-> None,
                 vector_db |-> new_vector_database(i[1], i[2], i[3])],
                AbsentFile, <<>>, FullDirectory, TRUE, "none")} :
      /\ cache_file = r.cache_file
      /\ vector_store = r.vector_store
      /\ processed_docs = r.processed_docs
      /\ document_search = r.document_search
      /\ vector_db = new_vector_database(i[1], i[2], i[3])
      /\ clock = 0
      /\ source_mtime = [f \in FileNames |-> 0]
      /\ cache_mtime = 0
      /\ chunking = NoCall
      /\ last \in FanOutCalls

\* the call runs to its return
FanOutNext ==
  \E c \in IF last.op = "call" THEN {last} ELSE {} :
    FindRelevantContent(c.discovery_notes, c.max_results, c.search_terms, "none")

FanOutSpec == FanOutInit /\ [][FanOutNext]_vars

-----------------------------------------------------------------------------
(* _extract_search_terms as a function of its text: one call per text.     *)

\* the words of the texts: "Apple" (longer than 4 characters, mixed case),
\* "would" (a stop word of 5 characters), "Mail" (4 characters, holds the
\* vocabulary term "ai"), "HCI" (a vocabulary term in upper case), "cloud" (a
\* vocabulary term longer than 4 characters), "clouds" (holds "cloud")
TermWords ==
  { <<"A", "p", "p", "l", "e">>, <<"w", "o", "u", "l", "d">>,
    <<"M", "a", "i", "l">>, <<"H", "C", "I">>,
    <<"c", "l", "o", "u", "d">>, <<"c", "l", "o", "u", "d", "s">> }

\* the texts: up to MaxWords words, and runs of one word repeated up to MaxRun
\* times followed by a last word; each also with a space in front and a newline
\* at the end
MaxWords == 3
MaxRun == 11
TermTexts ==
  LET plain == {JoinSpace(ws) : ws \in UNION {[1..n -> TermWords] : n \in 0..MaxWords}}
                 \cup {JoinSpace([i \in 1..(n + 1) |-> IF i <= n THEN w ELSE v]) :
                         w \in TermWords, v \in TermWords, n \in 9..MaxRun}
  IN  plain \cup {<<" ">> \o t \o <<"\n">> : t \in {JoinSpace(<<w>>) : w \in TermWords}}

\* the call _extract_search_terms(text) is made
TermsInit ==
  /\ cache_file = AbsentFile
  /\ vector_store = <<>>
  /\ processed_docs = <<>>
  /\ document_search = None
  /\ vector_db = NoVectorDatabase
  /\ clock = 0
  /\ source_mtime = [f \in FileNames |-> 0]
  /\ cache_mtime = 0
  /\ chunking = NoCall
  /\ \E text \in TermTexts : last = [op |-> "extract_call", text |-> text]

\* the call returns list(set(found_terms)), in any order of the set
ExtractSearchTerms ==
  \E c \in IF last.op = "extract_call" THEN {last} ELSE {} :
    \E terms \in Orders(extract_search_terms(c.text)) :
      /\ last' = [op |-> "extract", text |-> c.text, terms |-> terms]
      /\ UNCHANGED <<cache_file, vector_store, processed_docs, document_search,
                     vector_db, clock, source_mtime, cache_mtime, chunking>>

TermsNext == ExtractSearchTerms

TermsSpec == TermsInit /\ [][TermsNext]_vars

-----------------------------------------------------------------------------
(* add_documents as a function of the corpus it is given: one call per     *)
(* corpus, on an available vector index with an empty store.               *)

\* a chunk of document doc_name with ordinal chunk_id, as process_all_pdfs or a
\* cache file delivers it
IdChunk(doc_name, chunk_id) ==
  [text |-> <<"a", "i">>, chunk_id |-> chunk_id, start_char |-> 0, end_char |-> 2,
   char_count |-> 2, source_file |-> doc_name, source_title |-> doc_name,
   total_pages |-> 1]

\* a document with the given ordinals, in this order
IdDocument(doc_name, ordinals) ==
  [name |-> doc_name,
   metadata |-> [title |-> doc_name, num_pages |-> 1],
   chunks |-> [i \in 1..Len(ordinals) |-> IdChunk(doc_name, ordinals[i])],
   chunk_count |-> Len(ordinals)]

\* the corpora: one or two documents "a" and "a_1" in either order, each with up
\* to MaxDocChunks chunks whose ordinals are any of 0..MaxOrdinal (also equal
\* ones), and a document of MaxLongDoc chunks that all have ordinal 1
MaxDocChunks == 3
MaxOrdinal == 1
MaxLongDoc == 12
IdNames == {"a", "a_1"}
OrdinalLists == UNION {[1..n -> 0..MaxOrdinal] : n \in 0..MaxDocChunks}
Corpora ==
  {<<>>}
    \cup {<<IdDocument(n, o)>> : n \in IdNames, o \in OrdinalLists}
    \cup {<<IdDocument(nm[1], o), IdDocument(nm[2], p)>> :
            nm \in {x \in IdNames \X IdNames : x[1] /= x[2]},
            o \in OrdinalLists, p \in OrdinalLists}
    \cup {<<IdDocument("a", [i \in 1..MaxLongDoc |-> 1]), IdDocument("a_1", o)>> :
            o \in OrdinalLists}

\* VectorDatabase() with everything available, and the call add_documents(corpus)
IdsInit ==
  /\ cache_file = AbsentFile
  /\ vector_store = <<>>
  /\ processed_docs = <<>>
  /\ document_search = None
  /\ vector_db = new_vector_database(TRUE, TRUE, TRUE)
  /\ clock = 0
  /\ source_mtime = [f \in FileNames |-> 0]
  /\ cache_mtime = 0
  /\ chunking = NoCall
  /\ \E docs \in Corpora : last = [op |-> "add_call", docs |-> docs]

\* add_documents(docs): ids holds the ids the loop of lines 104-121 generated
AddDocuments ==
  \E c \in IF last.op = "add_call" THEN {last} ELSE {} :
    \E r \in {add_documents(vector_db, vector_store, c.docs, "none")} :
      /\ vector_store' = r.store
      /\ last' = [op |-> "add", docs |-> c.docs, ok |-> r.ok,
                  ids |-> [i \in 1..Len(all_chunks(c.docs)) |->
                             chunk_record(all_chunks(c.docs)[i], i - 1).id]]
      /\ UNCHANGED <<cache_file, processed_docs, document_search, vector_db,
                     clock, source_mtime, cache_mtime, chunking>>

IdsNext == AddDocuments

IdsSpec == IdsInit /\ [][IdsNext]_vars

-----------------------------------------------------------------------------
(* _get_match_preview as keyword_search calls it for a matching chunk, as a *)
(* function of the chunk text, the query and the preview length.           *)

\* the chunk texts, the queries and the preview lengths (keyword_search passes
\* 200; the lengths here stand for it at the scale of the texts)
MaxPreviewText == 5
MaxQueryLen == 2
MaxPreview == 6
PreviewTexts == UNION {[1..n -> {"a", "b", "."}] : n \in 1..MaxPreviewText}
PreviewQueries == UNION {[1..n -> {"a", "B"}] : n \in 0..MaxQueryLen}

\* keyword_search has found the query in the chunk and calls _get_match_preview
PreviewInit ==
  /\ cache_file = AbsentFile
  /\ vector_store = <<>>
  /\ processed_docs = <<>>
  /\ document_search = None
  /\ vector_db = NoVectorDatabase
  /\ clock = 0
  /\ source_mtime = [f \in FileNames |-> 0]
  /\ cache_mtime = 0
  /\ chunking = NoCall
  /\ \E text \in PreviewTexts : \E query \in PreviewQueries :
       \E preview_length \in 1..MaxPreview :
         /\ keyword_hit([text |-> text], query)
         /\ last = [op |-> "preview_call", text |-> text, query |-> query,
                    preview_length |-> preview_length]

\* the call returns the excerpt
GetMatchPreview ==
  \E c \in IF last.op = "preview_call" THEN {last} ELSE {} :
    /\ last' = [op |-> "preview", text |-> c.text, query |-> c.query,
                preview_length |-> c.preview_length,
                match_preview |-> get_match_preview(c.text, c.query, c.preview_length)]
    /\ UNCHANGED <<cache_file, vector_store, processed_docs, document_search,
                   vector_db, clock, source_mtime, cache_mtime, chunking>>

PreviewNext == GetMatchPreview

PreviewSpec == PreviewInit /\ [][PreviewNext]_vars

-----------------------------------------------------------------------------
(* BDMLLMEngine (llm_engine.py) and analyze_discovery_notes_with_llm.  The  *)
(* text-generation service is outside the program: a request to it ends in *)
(* one of LlmOutcomes, and a successful generation answers with one of     *)
(* LlmResponses.                                                           *)

\* how requests.post(...) and the reading of its answer can end: status 200 with
\* a JSON body, status 200 with a body that is no JSON (response.json() raises),
\* another status, a timeout, a refused connection
LlmOutcomes == {"ok", "not_json", "status_500", "timeout", "connection_error"}

\* the 'response' text of a successful generation: with the section markers,
\* without them, empty
LlmResponses == {"sections", "plain", ""}

\* test_connection: True only for status 200; every exception is caught
test_connection(outcome) == outcome \in {"ok", "not_json"}

\* _parse_bdm_response: the sections of the text; a text without section markers
\* goes to market_analysis as a whole
parse_bdm_response(response_text) ==
  [origin |-> "generated",
   market_analysis |-> IF response_text = "sections" THEN "market" ELSE response_text,
   solution_architecture |-> IF response_text = "sections" THEN "solution" ELSE "",
   competitive_advantage |-> IF response_text = "sections" THEN "competitive" ELSE "",
   business_impact |-> IF response_text = "sections" THEN "impact" ELSE ""]

\* BDMLLMEngine._fallback_analysis: four fixed texts
fallback_analysis ==
  [origin |-> "engine fallback",
   market_analysis |-> "LLM service temporarily unavailable",
   solution_architecture |-> "VxRail HCI, PowerStore storage, and ProSupport",
   competitive_advantage |-> "single-vendor simplicity",
   business_impact |-> "reduce operational overhead by 40%"]

\* generate_bdm_analysis: [raised, analysis]; a status other than 200 and every
\* exception of the request end in _fallback_analysis, nothing is raised
generate_bdm_analysis(outcome, response_text) ==
  IF outcome = "ok"
  THEN [raised |-> FALSE, analysis |-> parse_bdm_response(response_text)]
  ELSE [raised |-> FALSE, analysis |-> fallback_analysis]

\* _fallback_bdm_analysis: the requirement a group of words stands for
requirement_rules ==
  << [label |-> "VMware environment detected",
      words |->
      {<<"v", "m", "w", "a", "r", "e">>,
       <<"v", "s", "p", "h", "e", "r", "e">>,
       <<"v", "i", "r", "t", "u", "a", "l", "i", "z", "a", "t", "i", "o", "n">>}],
     [label |-> "AI/ML workload requirements",
      words |->
      {<<"a", "i">>,
       <<"m", "l">>,
       <<"m", "a", "c", "h", "i", "n", "e", " ", "l", "e", "a", "r", "n", "i", "n", "g">>,
       <<"a", "r", "t", "i", "f", "i", "c", "i", "a", "l", " ", "i", "n", "t", "e", "l", "l", "i", "g", "e", "n", "c", "e">>}],
     [label |-> "Storage performance needs",
      words |->
      {<<"s", "t", "o", "r", "a", "g", "e">>,
       <<"p", "e", "r", "f", "o", "r", "m", "a", "n", "c", "e">>,
       <<"b", "o", "t", "t", "l", "e", "n", "e", "c", "k">>}],
     [label |-> "Enterprise support requirements",
      words |->
      {<<"s", "u", "p", "p", "o", "r", "t">>,
       <<"2", "4", "/", "7">>,
       <<"s", "l", "a">>}],
     [label |-> "Budget considerations",
      words |->
      {<<"b", "u", "d", "g", "e", "t">>,
       <<"$">>,
       <<"c", "o", "s", "t">>}] >>

\* _fallback_bdm_analysis: the solution a group of words stands for
solution_rules ==
  << [label |-> "Dell VxRail HCI Platform",
      words |->
      {<<"h", "c", "i">>,
       <<"h", "y", "p", "e", "r", "c", "o", "n", "v", "e", "r", "g", "e", "d">>,
       <<"i", "n", "f", "r", "a", "s", "t", "r", "u", "c", "t", "u", "r", "e">>,
       <<"s", "i", "m", "p", "l", "i", "f", "y">>}],
     [label |-> "Dell PowerStore Storage",
      words |->
      {<<"s", "t", "o", "r", "a", "g", "e">>,
       <<"p", "e", "r", "f", "o", "r", "m", "a", "n", "c", "e">>,
       <<"d", "a", "t", "a">>}],
     [label |-> "Dell ProSupport Services",
      words |->
      {<<"s", "u", "p", "p", "o", "r", "t">>,
       <<"s", "e", "r", "v", "i", "c", "e">>,
       <<"2", "4", "/", "7">>}] >>

\* the labels of the rules one of whose words occurs in the lowercased notes, in
\* the order of the rules
detected(rules, notes_lower) ==
  LET hit == SelectSeq([i \in 1..Len(rules) |-> i],
                       LAMBDA i : \E w \in rules[i].words : Contains(w, notes_lower))
  IN  [k \in 1..Len(hit) |-> rules[hit[k]].label]

\* KnowledgeBase._fallback_bdm_analysis: the requirements and solutions detected
\* in the notes, and two fixed texts
fallback_bdm_analysis(discovery_notes) ==
  [origin |-> "keyword fallback",
   market_analysis |-> detected(requirement_rules, Lower(discovery_notes)),
   solution_architecture |-> detected(solution_rules, Lower(discovery_notes)),
   competitive_advantage |-> "single-vendor support",
   business_impact |-> "reduce infrastructure management overhead"]

\* analyze_discovery_notes_with_llm: [raised, result]; relevant_results is what
\* find_relevant_content(discovery_notes, max_results) does at line 278, probe
\* the outcome of the request of test_connection, outcome and response_text
\* those of the generation
analyze_discovery_notes_with_llm(docs, relevant_results, discovery_notes, probe, outcome, response_text) ==
  IF ~is_initialized(docs)
  THEN [raised |-> FALSE,
        result |-> [error |-> "Knowledge base not initialized",
                    llm_analysis |-> None, relevant_content |-> <<>>,
                    search_terms |-> <<>>, llm_available |-> FALSE]]
  ELSE LET generated == generate_bdm_analysis(outcome, response_text)
       IN  IF relevant_results.raised THEN [raised |-> TRUE, result |-> None]
           ELSE IF ~test_connection(probe)
           THEN [raised |-> FALSE,
                 result |-> [error |-> "LLM service not available",
                             llm_analysis |-> fallback_bdm_analysis(discovery_notes),
                             relevant_content |-> relevant_results.results,
                             search_terms |-> relevant_results.search_terms,
                             llm_available |-> FALSE]]
           ELSE IF generated.raised
           THEN [raised |-> FALSE,
                 result |-> [error |-> "LLM analysis failed",
                             llm_analysis |-> fallback_bdm_analysis(discovery_notes),
                             relevant_content |-> relevant_results.results,
                             search_terms |-> relevant_results.search_terms,
                             llm_available |-> FALSE]]
           ELSE [raised |-> FALSE,
                 result |-> [llm_analysis |-> generated.analysis,
                             relevant_content |-> relevant_results.results,
                             search_terms |-> relevant_results.search_terms,
                             llm_available |-> TRUE,
                             chunks_found |-> Len(relevant_results.results),
                             sources_used |-> IF Len(relevant_results.results) = 0
                                              THEN 0 ELSE 1]]

\* "vmware HCI support": notes in which the keyword fallback detects something
NotesVmware ==
  <<"v", "m", "w", "a", "r", "e", " ", "H", "C", "I", " ",
    "s", "u", "p", "p", "o", "r", "t">>
AnalyzeNotes == {NotesBlank, NotesMlAi, NotesVmware}

\* the calls analyze_discovery_notes_with_llm(discovery_notes, max_results),
\* each with the order the extracted terms come out in and with what the two
\* requests to the text-generation service end in
AnalyzeCalls ==
  UNION {{[op |-> "analyze_call", discovery_notes |-> discovery_notes,
           max_results |-> max_results, search_terms |-> search_terms,
           probe |-> probe, outcome |-> outcome, response_text |-> response_text] :
            max_results \in 1..MaxResults,
            search_terms \in Orders(extract_search_terms(discovery_notes)),
            probe \in LlmOutcomes \ {"not_json"},
            outcome \in LlmOutcomes,
            response_text \in LlmResponses} :
         discovery_notes \in AnalyzeNotes}

\* the installation after KnowledgeBase(), and after that a successful
\* build_knowledge_base(use_embeddings=True) over the full directory or none,
\* at the moment analyze_discovery_notes_with_llm is called
AnalyzeInit ==
  \E i \in {<<TRUE, TRUE, TRUE>>, <<FALSE, FALSE, FALSE>>} : \E built \in BOOLEAN :
    \E r \in {IF built
              THEN build_knowledge_base(
                     [processed_docs |-> <<>>, document_search |-> None,
                      vector_db |-> new_vector_database(i[1], i[2], i[3])],
                     AbsentFile, <<>>, FullDirectory, TRUE, "none")
              ELSE [cache_file |-> AbsentFile, vector_store |-> <<>>,
                    processed_docs |-> <<>>, document_search |-> None]} :
      /\ cache_file = r.cache_file
      /\ vector_store = r.vector_store
      /\ processed_docs = r.processed_docs
      /\ document_search = r.document_search
      /\ vector_db = new_vector_database(i[1], i[2], i[3])
      /\ clock = 0
      /\ source_mtime = [f \in FileNames |-> 0]
      /\ cache_mtime = 0
      /\ chunking = NoCall
      /\ last \in AnalyzeCalls

\* the call runs to its return
AnalyzeDiscoveryNotesWithLlm ==
  \E c \in IF last.op = "analyze_call" THEN {last} ELSE {} :
    \E found \in {find_relevant_content(
                    processed_docs, document_search, vector_db, vector_store,
                    c.discovery_notes, c.max_results, c.search_terms, "none")} :
     \E r \in {analyze_discovery_notes_with_llm(
                processed_docs, found, c.discovery_notes,
                c.probe, c.outcome, c.response_text)} :
      /\ last' = [op |-> "analyze", discovery_notes |-> c.discovery_notes,
                  max_results |-> c.max_results, search_terms |-> c.search_terms,
                  probe |-> c.probe, outcome |-> c.outcome,
                  response_text |-> c.response_text,
                  raised |-> r.raised, result |-> r.result]
      /\ UNCHANGED <<cache_file, vector_store, processed_docs, document_search,
                     vector_db, clock, source_mtime, cache_mtime, chunking>>

AnalyzeNext == AnalyzeDiscoveryNotesWithLlm

AnalyzeSpec == AnalyzeInit /\ [][AnalyzeNext]_vars

-----------------------------------------------------------------------------
(* Properties of build_knowledge_base, checked under Spec                  *)

\* the files of a directory that open and parse, in the order they are listed
Parsed(dir) == SelectSeq(glob(dir), LAMBDA f : dir[f] /= "corrupt")

\* the documents of a corpus, by name
Names(docs) == [i \in 1..Len(docs) |-> docs[i].name]

SaveFaults == {"open_fails", "write_fails"}

\* the last operation was a build that got as far as writing the cache, and the
\* write failed
SaveFailed(l) ==
  l.op = "build" /\ l.fault \in SaveFaults /\ Len(Parsed(l.dir)) > 0

\* C1: whenever build_knowledge_base returns failure (no documents, an exception
\* in ingestion, the cache not written), processed_docs and document_search are
\* what they were before the call, whatever constructs, builds and clears came
\* before.  The failure is a return value: the except clause of the method lets
\* no exception out, so every call ends in ok = TRUE or ok = FALSE.
C1_FailedBuildLeavesCorpus ==
  [][(last'.op = "build" /\ ~last'.ok)
       => /\ processed_docs' = processed_docs
          /\ document_search' = document_search]_vars

\* a build fails over a corpus that an earlier build loaded
C1_Witness ==
  /\ last.op = "build" /\ ~last.ok /\ last.fault = "open_fails"
  /\ Len(Parsed(last.dir)) > 0
  /\ is_initialized(processed_docs)
  /\ Names(processed_docs) /= Parsed(last.dir)

\* C2: when a build fails because the cache write fails, the cache file, the
\* corpus, the keyword index and the vector store are the same after the build
\* as before it.
C2_SaveFailureCommitsNothing ==
  [][SaveFailed(last')
       => /\ ~last'.ok
          /\ cache_file' = cache_file
          /\ processed_docs' = processed_docs
          /\ document_search' = document_search
          /\ vector_store' = vector_store]_vars

\* ingestion of a document throws after an earlier document was ingested: the
\* second file listed is unreadable, or an exception escapes the loop at it
ThrowsAfterSuccess(l) ==
  /\ l.op = "build"
  /\ l.dir[Powerstore] = "long"
  /\ \/ l.dir[Vxrail] = "corrupt"
     \/ l.dir[Vxrail] /= "absent" /\ l.fault = "ingest_raises"

\* C3 as stated: if ingestion of one document throws after earlier documents
\* were ingested, the build reports failure and the corpus loaded before stays.
C3_ThrowFailsTheBuild ==
  [][ThrowsAfterSuccess(last')
       => /\ ~last'.ok
          /\ processed_docs' = processed_docs]_vars

\* C3, amended: an exception that escapes ingestion after earlier documents were
\* ingested makes the build fail and leaves the corpus loaded before; a document
\* whose extraction throws is skipped, and the build, if the cache is written,
\* succeeds and loads the documents that did parse in place of the corpus loaded
\* before.
C3_EscapingExceptionFailsTheBuild ==
  [][ThrowsAfterSuccess(last')
       => IF last'.fault = "ingest_raises"
          THEN /\ ~last'.ok
               /\ processed_docs' = processed_docs
               /\ document_search' = document_search
          ELSE last'.fault \notin SaveFaults
                 => /\ last'.ok
                    /\ Names(processed_docs') = <<Powerstore>>]_vars

\* an exception escaped ingestion at the second of two files, over a loaded corpus
C3_Witness ==
  /\ ThrowsAfterSuccess(last) /\ last.fault = "ingest_raises"
  /\ last.dir[Vxrail] = "long"
  /\ ~last.ok
  /\ Names(processed_docs) = <<Vxrail>>

\* C4: the corpus a build loads holds exactly the documents that opened and
\* parsed (an unreadable one is left out, the others are still ingested); the
\* build succeeds if and only if at least one document was ingested and the cache
\* was written, so it fails for an empty directory and for one in which every
\* document fails.
C4_CorpusIsWhatParsed ==
  last.op = "build"
    => /\ last.ok <=> /\ Len(Parsed(last.dir)) > 0
                      /\ last.fault \notin {"ingest_raises"} \cup SaveFaults
       /\ last.ok => Names(processed_docs) = Parsed(last.dir)

\* a build skipped the unreadable file and loaded the other one
C4_Witness ==
  /\ last.op = "build" /\ last.ok
  /\ last.dir[Vxrail] = "corrupt"
  /\ Names(processed_docs) = <<Powerstore>>

-----------------------------------------------------------------------------
(* Properties of search and find_relevant_content, checked under QuerySpec *)

\* what search returned, as search returns it
Returned(l) == [raised |-> l.raised, results |-> l.results]

\* C5: while the corpus is not initialized, search returns an empty list for
\* every query and every mode and does not raise, and find_relevant_content
\* returns no results.
C5_UninitializedSearchIsEmpty ==
  (last.op \in {"search", "find"} /\ ~is_initialized(processed_docs))
    => ~last.raised /\ last.results = <<>>

\* a semantic search over a cleared corpus whose vector collection still has
\* records
C5_Witness ==
  /\ last.op = "search" /\ last.search_type = "semantic" /\ last.fault = "none"
  /\ ~is_initialized(processed_docs)
  /\ is_available(vector_db)
  /\ Len(vector_store) > 0

\* C6: when the vector index is unavailable, a semantic search returns what the
\* keyword search for the same query and max_results returns on the same corpus.
C6_UnavailableSemanticIsKeyword ==
  (last.op = "search" /\ last.search_type = "semantic" /\ ~is_available(vector_db))
    => Returned(last) = search(processed_docs, document_search, vector_db,
                               vector_store, last.query, "keyword",
                               last.max_results, "none")

\* a semantic search without the vector index found chunks
C6_Witness ==
  /\ last.op = "search" /\ last.search_type = "semantic"
  /\ ~is_available(vector_db)
  /\ Len(last.results) > 0

\* C7: a failure of the embedding model or of the store during a semantic search
\* surfaces as is_available() = FALSE (so that later semantic searches take the
\* keyword path).
C7_FailureMakesIndexUnavailable ==
  (/\ last.op = "search" /\ last.search_type = "semantic"
   /\ last.fault /= "none"
   /\ is_initialized(processed_docs))
    => ~is_available(vector_db)

\* C8: for the same notes and corpus, every order of the extracted terms gives
\* the same result list: the same chunks, scores and order.
C8_TermOrderIsIrrelevant ==
  (last.op = "find" /\ ~last.raised)
    => \A order \in Orders(extract_search_terms(last.discovery_notes)) :
         find_relevant_content(processed_docs, document_search, vector_db,
                               vector_store, last.discovery_notes,
                               last.max_results, order, last.fault).results
           = last.results

\* a chunk's identity: its document and its ordinal in the document
Identity(r) ==
  <<r.source_file,
    IF "metadata" \in DOMAIN r THEN r.metadata.chunk_id ELSE r.chunk_id>>

\* the per-term result lists of the last find_relevant_content, concatenated
Concatenation(l) ==
  fan_out(processed_docs, document_search, vector_db, vector_store,
          SubSeq(l.search_terms, 1, Min(5, Len(l.search_terms))), l.fault,
          <<>>).results

\* C9: the list find_relevant_content returns has no two entries with the same
\* chunk identity, in keyword and in semantic mode, also when the store holds
\* several records of a chunk; the entry kept for an identity is the first one
\* with it in the concatenation of the per-term lists.
C9_OneEntryPerChunk ==
  last.op = "find"
    => LET all == Concatenation(last)
       IN  /\ \A i, j \in 1..Len(last.results) :
                Identity(last.results[i]) = Identity(last.results[j]) => i = j
           /\ \A i \in 1..Len(last.results) :
                \E k \in 1..Len(all) :
                  /\ all[k] = last.results[i]
                  /\ \A m \in 1..(k - 1) : Identity(all[m]) /= Identity(all[k])

\* semantic mode over a store with two records of one chunk, both of which a
\* term's search returned
C9_Witness ==
  /\ last.op = "find" /\ is_available(vector_db) /\ Len(last.results) > 0
  /\ \E i, j \in 1..Len(vector_store) :
       i /= j /\ vector_store[i].metadata = vector_store[j].metadata
  /\ LET all == Concatenation(last)
     IN  \E i, j \in 1..Len(all) :
           /\ i < j
           /\ Identity(all[i]) = Identity(all[j])
           /\ all[i].search_term = all[j].search_term

\* the chunks of the corpus whose lowercased text contains the lowercased query
Matching(query) ==
  SelectSeq(document_search.chunks,
            LAMBDA c : Contains(Lower(query), Lower(c.text)))

\* C10: keyword_search returns a chunk if and only if the lowercased query is a
\* substring of its lowercased text (up to max_results of them), each with the
\* score (non-overlapping occurrences of the lowercased query) / (words of the
\* chunk).
C10_KeywordSearchScoresMatches ==
  (last.op = "search" /\ last.search_type = "keyword"
     /\ is_initialized(processed_docs))
    => /\ ~last.raised
       /\ Len(last.results) = Min(last.max_results, Len(Matching(last.query)))
       /\ \A i \in 1..Len(last.results) :
            LET r == last.results[i]
            IN  /\ Contains(Lower(last.query), Lower(r.text))
                /\ r.relevance_score.num * WordCount(r.text)
                     = Count(Lower(last.query), Lower(r.text)) * r.relevance_score.den

\* the relevance score keyword_search gives a chunk for a query
ScoreOf(c, query) == Fraction(Count(Lower(query), Lower(c.text)), WordCount(c.text))

\* the place of a chunk in the flattened corpus
Position(r) ==
  CHOOSE k \in 1..Len(document_search.chunks) :
    Identity(document_search.chunks[k]) = Identity(r)

\* r comes before s in the order keyword_search sorts by: higher score first,
\* chunks of equal score in flattened order
Before(r, s, query) ==
  \/ ScoreLess(ScoreOf(s, query), ScoreOf(r, query))
  \/ /\ ScoreOf(s, query) = ScoreOf(r, query)
     /\ Position(r) < Position(s)

\* C11: the list keyword_search returns is sorted by non-increasing relevance
\* score, chunks of equal score stand in their flattened corpus order, and the
\* list is the first max_results entries of the matches so sorted: it has
\* min(max_results, number of matches) entries and every match left out comes
\* after every match returned.
C11_SortedStableAndCut ==
  (last.op = "search" /\ last.search_type = "keyword" /\ ~last.raised
     /\ is_initialized(processed_docs))
    => /\ \A i, j \in 1..Len(last.results) :
            i < j => Before(last.results[i], last.results[j], last.query)
       /\ Len(last.results) = Min(last.max_results, Len(Matching(last.query)))
       /\ \A k \in 1..Len(Matching(last.query)) :
            LET m == Matching(last.query)[k]
            IN  \/ \E i \in 1..Len(last.results) :
                     Identity(last.results[i]) = Identity(m)
                \/ \A i \in 1..Len(last.results) :
                     Before(last.results[i], m, last.query)

\* a search returned two chunks of equal score and left a match out
C11_Witness ==
  /\ last.op = "search" /\ last.search_type = "keyword" /\ ~last.raised
  /\ is_initialized(processed_docs)
  /\ Len(last.results) < Len(Matching(last.query))
  /\ \E i \in 1..Len(last.results) : \E j \in 1..Len(last.results) :
       /\ i < j
       /\ last.results[i].relevance_score = last.results[j].relevance_score

\* C12: a keyword search for the empty query returns the empty list and does not
\* raise, for every initialized corpus, also one that has a chunk with empty
\* text.
C12_EmptyQueryReturnsNothing ==
  (last.op = "search" /\ last.search_type = "keyword" /\ last.query = QueryEmpty
     /\ is_initialized(processed_docs))
    => ~last.raised /\ last.results = <<>>

-----------------------------------------------------------------------------
(* Properties of clear_cache and of the vector store, checked under Spec   *)

\* C14: when clear_cache reports success the cache file is absent, the corpus is
\* empty, the keyword index is dropped and, if the vector index is available,
\* the persistent collection has no records; when it reports failure (the cache
\* file could not be removed) the corpus and the keyword index are unchanged.
C14_ClearCacheClears ==
  [][last'.op = "clear"
       => IF last'.ok
          THEN /\ cache_file' = AbsentFile
               /\ processed_docs' = <<>>
               /\ document_search' = None
               /\ is_available(vector_db') => vector_store' = <<>>
          ELSE /\ processed_docs' = processed_docs
               /\ document_search' = document_search]_vars

\* the number of chunks of the first n documents of a corpus
RECURSIVE ChunksBefore(_, _)
ChunksBefore(docs, n) ==
  IF n = 0 THEN 0 ELSE ChunksBefore(docs, n - 1) + Len(docs[n].chunks)

\* C15: after any sequence of constructs, builds (successful or failed) and
\* clears, the keyword index exists if and only if the corpus is not empty, and
\* its chunk sequence is the chunks of the loaded corpus, document by document
\* in corpus order, each tagged with the name of its document.
C15_IndexMatchesCorpus ==
  /\ document_search /= None <=> is_initialized(processed_docs)
  /\ document_search /= None =>
       /\ Len(document_search.chunks) = ChunksBefore(processed_docs, Len(processed_docs))
       /\ \A i \in 1..Len(processed_docs) :
            \A j \in 1..Len(processed_docs[i].chunks) :
              LET c == document_search.chunks[ChunksBefore(processed_docs, i - 1) + j]
              IN  /\ c = processed_docs[i].chunks[j]
                  /\ c.document_name = processed_docs[i].name

\* a restart loaded a corpus of two documents, five chunks, from the cache
C15_Witness ==
  /\ last.op = "construct"
  /\ Len(processed_docs) = 2
  /\ document_search /= None
  /\ Len(document_search.chunks) = 5

\* the vector index is available and its collection exists
IndexReady == is_available(vector_db) /\ vector_db.collection = "open"

\* C16: add_documents(corpus), called on an available vector index with an empty
\* store and a working embedding model, leaves one record per chunk of the
\* corpus, in corpus order, each with the chunk's text and document name; for
\* every corpus the ingestor produces, also one with a document shorter than the
\* chunk size.
C16_OneRecordPerChunk ==
  (is_initialized(processed_docs) /\ IndexReady)
    => \E r \in {add_documents(vector_db, <<>>, processed_docs, "none")} :
         /\ r.ok
         /\ Len(r.store) = ChunksBefore(processed_docs, Len(processed_docs))
         /\ \A i \in 1..Len(processed_docs) :
              \A j \in 1..Len(processed_docs[i].chunks) :
                LET rec == r.store[ChunksBefore(processed_docs, i - 1) + j]
                IN  /\ rec.document = processed_docs[i].chunks[j].text
                    /\ rec.metadata.source_file = processed_docs[i].name

\* the last operation was the second of two successive successful builds of the
\* same directory, both with embeddings and without a fault, on an available
\* vector index
Rebuilt(l) ==
  l.op = "build" /\ l.ok /\ l.embedded /\ l.fault = "none" /\ l.again

\* the records of the store that were made from chunk c
RecordsOf(store, c) ==
  {k \in 1..Len(store) :
     /\ store[k].document = c.text
     /\ store[k].metadata.source_file = c.source_file
     /\ store[k].metadata.chunk_id = c.chunk_id}

C24_StoreHoldsOnlyLoadedChunks ==
  \A k \in 1..Len(vector_store) :
    \E i \in 1..Len(processed_docs) :
      \E j \in 1..Len(processed_docs[i].chunks) :
        /\ processed_docs[i].name = vector_store[k].metadata.source_file
        /\ processed_docs[i].chunks[j].chunk_id = vector_store[k].metadata.chunk_id
        /\ processed_docs[i].chunks[j].text = vector_store[k].document

-----------------------------------------------------------------------------
(* Properties of needs_rebuild, checked under RebuildSpec                  *)

\* some file the directory lists is strictly newer than the cache file
SourceNewer(dir) == \E f \in FileNames : dir[f] /= "absent" /\ source_mtime[f] > cache_mtime

\* what the claim says needs_rebuild returns
ShouldRebuild(dir) ==
  \/ ~is_initialized(processed_docs)
  \/ cache_file = AbsentFile
  \/ SourceNewer(dir)

\* C13 as stated: needs_rebuild returns true if the corpus is empty, or there is
\* no cache file, or a source document is strictly newer than the cache file, and
\* false otherwise; it is false right after a successful build while no source
\* document is written, and true after clear_cache.
C13_NeedsRebuild ==
  /\ last.op = "needs_rebuild" => (last.result <=> ShouldRebuild(last.dir))
  /\ (last.op = "needs_rebuild" /\ last.after.op = "build" /\ last.after.ok)
       => ~last.result
  /\ (last.op = "needs_rebuild" /\ last.after.op = "clear") => last.result

\* C13, amended: the same, with needs_rebuild true after a clear_cache that
\* reported success (one that failed to remove the cache file cleared nothing).
C13_NeedsRebuildAfterSuccessfulClear ==
  /\ last.op = "needs_rebuild" => (last.result <=> ShouldRebuild(last.dir))
  /\ (last.op = "needs_rebuild" /\ last.after.op = "build" /\ last.after.ok)
       => ~last.result
  /\ (last.op = "needs_rebuild" /\ last.after.op = "clear" /\ last.after.ok)
       => last.result

\* needs_rebuild is asked after a successful build, some time later, for a
\* directory with a document exactly as old as the cache file
C13_Witness ==
  /\ last.op = "needs_rebuild" /\ last.after.op = "build" /\ last.after.ok
  /\ ~last.result
  /\ clock > cache_mtime
  /\ \E f \in FileNames :
       last.dir[f] /= "absent" /\ source_mtime[f] = cache_mtime /\ cache_mtime > 0

-----------------------------------------------------------------------------
(* Properties of chunk_text, checked under ChunkSpec                       *)

\* chunk_text has returned; chunking.chunks is the list it returned
Returns == chunking.pc = "returned"

\* position p of the text (0-based) lies in the offset range of some chunk
Covered(p) ==
  \E k \in 1..Len(chunking.chunks) :
    chunking.chunks[k].start_char <= p /\ p < chunking.chunks[k].end_char

RECURSIVE Reconstructed(_, _)
Reconstructed(chunks, k) ==
  IF k = 0 THEN <<>>
  ELSE IF k = 1 THEN chunks[1].text
  ELSE LET shared == Max(0, chunks[k - 1].end_char - chunks[k].start_char)
       IN  Reconstructed(chunks, k - 1)
             \o Slice(chunks[k].text, shared, Len(chunks[k].text))

\* C19: each chunk's text is the slice text[start_char:end_char] of the source,
\* whitespace at its edges included, and the chunk texts joined in ordinal order
\* without their overlapping prefixes are the text, for every overlap.
C19_ChunksReconstructText ==
  Returns
    => /\ \A k \in 1..Len(chunking.chunks) :
            chunking.chunks[k].text
              = Slice(chunking.text, chunking.chunks[k].start_char,
                      chunking.chunks[k].end_char)
       /\ Reconstructed(chunking.chunks, Len(chunking.chunks)) = chunking.text

\* C20: the chunks chunk_text returns carry the ordinals 0, 1, 2, ... in text
\* order, without gap or repeat: the k-th chunk has chunk_id k - 1 and starts
\* after the one before it, also when a window of whitespace was skipped; a text
\* shorter than chunk_size is returned as exactly one chunk, with ordinal 0.
C20_OrdinalsCountEmittedChunks ==
  Returns
    => /\ \A k \in 1..Len(chunking.chunks) : chunking.chunks[k].chunk_id = k - 1
       /\ \A k \in 1..(Len(chunking.chunks) - 1) :
            chunking.chunks[k].start_char < chunking.chunks[k + 1].start_char
       /\ Len(chunking.text) < chunking.chunk_size
            => /\ Len(chunking.chunks) = 1
               /\ chunking.chunks[1].chunk_id = 0

\* a window between two emitted chunks was skipped, and a chunk follows it
C20_Witness ==
  /\ Returns
  /\ \E k \in 1..(Len(chunking.chunks) - 1) :
       /\ chunking.chunks[k].end_char < chunking.chunks[k + 1].start_char
       /\ chunking.chunks[k + 1].chunk_id = k

\* what the end of chunk k reaches past the start of chunk k + 1
Shared(k) == chunking.chunks[k].end_char - chunking.chunks[k + 1].start_char

C22_ChunkTextTerminates ==
  /\ [][(chunking.pc = "loop" /\ chunking'.pc = "loop")
          => chunking'.start > chunking.start]_vars
  /\ <>Returns

\* C23: the offsets of every chunk chunk_text returns are positions of the
\* text: 0 <= start_char <= end_char <= len(text), for the last chunk of a text
\* longer than chunk_size as well.
C23_OffsetsWithinText ==
  Returns
    => \A k \in 1..Len(chunking.chunks) :
         /\ 0 <= chunking.chunks[k].start_char
         /\ chunking.chunks[k].start_char <= chunking.chunks[k].end_char
         /\ chunking.chunks[k].end_char <= Len(chunking.text)

\* the offsets of the '.' characters inside the window [start, start + chunk_size)
\* of the iteration about to run
Dots ==
  {p \in chunking.start..(chunking.start + chunking.chunk_size - 1) :
     p < Len(chunking.text) /\ chunking.text[p + 1] = "."}
LastDot == CHOOSE p \in Dots : \A q \in Dots : q <= p

\* the boundary the claim gives the window: just after the last '.' when that
\* '.' is at most chunk_size/2 before the naive boundary, else the naive boundary
ClaimedEnd ==
  LET naive == chunking.start + chunking.chunk_size
  IN  IF Dots /= {} /\ 2 * (naive - LastDot) <= chunking.chunk_size
      THEN LastDot + 1 ELSE naive

\* C25: in an iteration whose naive boundary start + chunk_size falls before the
\* end of the text, the boundary is just after the last '.' of the window exactly
\* when that '.' lies at most chunk_size/2 (exactly chunk_size/2 included) before
\* the naive boundary, and the naive boundary otherwise; it is never beyond the
\* naive boundary.  (The boundary of such an iteration is the next start plus
\* overlap.)
C25_RetractionWithinHalf ==
  [][(/\ chunking.pc = "loop" /\ chunking'.pc = "loop"
      /\ chunking.start >= 0
      /\ chunking.start + chunking.chunk_size < Len(chunking.text))
       => /\ chunking'.start + chunking.overlap = ClaimedEnd
          /\ chunking'.start + chunking.overlap
               <= chunking.start + chunking.chunk_size]_vars
-----------------------------------------------------------------------------
(* Properties of find_relevant_content, checked under FanOutSpec           *)

\* the list the search for one term returns for the knowledge base as it is
TermResults(term) ==
  search(processed_docs, document_search, vector_db, vector_store, term,
         IF is_available(vector_db) THEN "semantic" ELSE "keyword", 3, "none").results

\* the score an entry is ranked by
RankScore(r) ==
  IF "similarity_score" \in DOMAIN r THEN r.similarity_score ELSE r.relevance_score

\* C26: find_relevant_content(text, max_results) returns the first max_results
\* entries of the deduplicated merged list, in non-increasing order of score
\* (similarity score when present, else relevance score); at most five terms
\* are searched with up to three results each, so the merged list has at most
\* 15 entries and the returned list at most min(max_results, 15); every returned
\* entry carries the searched term that produced it.
C26_FirstOfMergedByScore ==
  last.op = "find"
    => LET searched == SubSeq(last.search_terms, 1, Min(5, Len(last.search_terms)))
           all == Concatenation(last)
           merged == deduplicate_results(all)
       IN  /\ ~last.raised
           /\ Len(all) <= 15
           /\ Len(last.results) <= Min(last.max_results, 15)
           /\ last.results = SubSeq(merged, 1, Min(last.max_results, Len(merged)))
           /\ \A i, j \in 1..Len(merged) :
                i < j => ~ScoreLess(RankScore(merged[i]), RankScore(merged[j]))
           /\ \A i \in 1..Len(last.results) :
                LET r == last.results[i]
                IN  /\ \E k \in 1..Len(searched) : searched[k] = r.search_term
                    /\ \E m \in 1..Len(TermResults(r.search_term)) :
                         [search_term |-> r.search_term]
                           @@ TermResults(r.search_term)[m] = r

\* notes with six terms: the sixth is not searched although it would have found
\* a chunk no other term finds, and more chunks were found than are returned
C26_Witness ==
  /\ last.op = "find" /\ Len(last.search_terms) = 6
  /\ Len(last.results) = last.max_results /\ last.unique > last.max_results
  /\ \E m \in 1..Len(TermResults(last.search_terms[6])) :
       \A k \in 1..Len(Concatenation(last)) :
         Identity(Concatenation(last)[k])
           /= Identity(TermResults(last.search_terms[6])[m])
-----------------------------------------------------------------------------
(* Properties of _extract_search_terms, checked under TermsSpec            *)

\* the lowercased whitespace-separated tokens of the text of the last call
Tokens == Split(Lower(last.text))

\* the positions of the tokens longer than 4 characters that are no stop words
Kept == {i \in 1..Len(Tokens) : Len(Tokens[i]) > 4 /\ Tokens[i] \notin stop_words}

\* the first ten of them
FirstTenKept == {Tokens[i] : i \in {k \in Kept : Cardinality({j \in Kept : j <= k}) <= 10}}

\* the vocabulary terms that occur in the lowercased text
VocabularyFound ==
  {dell_terms[k] : k \in {j \in 1..Len(dell_terms) : Contains(dell_terms[j], Lower(last.text))}}

\* C27: the term list extracted from a text has no duplicates and is, as a set,
\* the union of the vocabulary terms that are substrings of the lowercased text
\* and the first 10 whitespace-separated lowercased tokens that are longer than
\* 4 characters and no stop words.
C27_TermsAreVocabularyAndFirstTen ==
  last.op = "extract"
    => /\ \A i, j \in 1..Len(last.terms) : last.terms[i] = last.terms[j] => i = j
       /\ {last.terms[i] : i \in 1..Len(last.terms)} = VocabularyFound \cup FirstTenKept

\* a text with more than ten kept tokens, the eleventh of which is no term, and a
\* vocabulary term found inside a longer token
C27_Witness ==
  /\ last.op = "extract" /\ Cardinality(Kept) > 10
  /\ \E i \in Kept : \A k \in 1..Len(last.terms) : last.terms[k] /= Tokens[i]
  /\ \E k \in 1..Len(last.terms) :
       /\ last.terms[k] \in VocabularyFound
       /\ \A i \in 1..Len(Tokens) : Tokens[i] /= last.terms[k]
-----------------------------------------------------------------------------
(* Properties of add_documents, checked under IdsSpec                      *)

\* C28: within one add_documents call the generated record ids are pairwise
\* distinct for every corpus, also when two chunks have the same document
\* identifier and the same chunk ordinal; one id is generated per chunk, and a
\* successful call on an empty store stores one record per chunk.
C28_IdsPairwiseDistinct ==
  last.op = "add"
    => /\ Len(last.ids) = Len(all_chunks(last.docs))
       /\ \A i, j \in 1..Len(last.ids) : last.ids[i] = last.ids[j] => i = j
       /\ last.ok => Len(vector_store) = Len(all_chunks(last.docs))

\* a successful call for a corpus with two chunks of one document and equal
\* ordinals, and one whose counter has two digits
C28_Witness ==
  /\ last.op = "add" /\ last.ok
  /\ \E i, j \in 1..Len(all_chunks(last.docs)) :
       /\ i < j
       /\ all_chunks(last.docs)[i].source_file = all_chunks(last.docs)[j].source_file
       /\ all_chunks(last.docs)[i].chunk_id = all_chunks(last.docs)[j].chunk_id
  /\ Len(last.ids) > 10
-----------------------------------------------------------------------------
(* Properties of _get_match_preview, checked under PreviewSpec             *)

\* the excerpt of the window [s, e) of the text of the last call, with an
\* ellipsis marker in front when s > 0 and one behind when e < len(text)
Excerpt(s, e) ==
  (IF s > 0 THEN Ellipsis ELSE <<>>)
    \o SubSeq(last.text, s + 1, e)
    \o (IF e < Len(last.text) THEN Ellipsis ELSE <<>>)

\* offset of the first occurrence of the query in the text of the last call
FirstMatch == Find(Lower(last.query), Lower(last.text))

\* the excerpt is that of a window which holds the whole first occurrence
ExcerptHoldsFirstMatch ==
  \E s \in 0..Len(last.text) : \E e \in s..Len(last.text) :
    /\ s <= FirstMatch /\ FirstMatch + Len(last.query) <= e
    /\ last.match_preview = Excerpt(s, e)

\* C29: for every keyword search result the excerpt contains the whole first
\* occurrence of the query in the chunk, begins with an ellipsis marker exactly
\* when the window does not start at the first character of the chunk text and
\* ends with one exactly when the window does not reach its end; a chunk
\* shorter than the window yields the whole chunk text with no ellipsis.
C29_ExcerptOfMatch ==
  last.op = "preview"
    => /\ ExcerptHoldsFirstMatch
       /\ Len(last.text) < last.preview_length => last.match_preview = last.text

-----------------------------------------------------------------------------
(* Properties of analyze_discovery_notes_with_llm, checked under           *)
(* AnalyzeSpec                                                             *)

\* what find_relevant_content returns for the notes of the last call
Retrieved ==
  find_relevant_content(processed_docs, document_search, vector_db, vector_store,
                        last.discovery_notes, last.max_results, last.search_terms,
                        "none")

\* the generation request of the last call was made and did not answer with a
\* status 200 and a readable body
GenerationFailed == test_connection(last.probe) /\ last.outcome /= "ok"

\* C30: analyze_discovery_notes_with_llm never raises on a text-generation
\* failure; it reports llm_available = true only when the analysis it returns
\* was produced by the text-generation service; whenever the generation call
\* times out, errors or answers with a non-success status the returned analysis
\* is the static fallback and llm_available is false; relevant_content and
\* search_terms are those of the retrieval in every case.
C30_LlmAvailableMeansGenerated ==
  (last.op = "analyze" /\ is_initialized(processed_docs))
    => /\ ~last.raised
       /\ last.result.llm_available => last.result.llm_analysis.origin = "generated"
       /\ GenerationFailed
            => /\ ~last.result.llm_available
               /\ last.result.llm_analysis.origin /= "generated"
       /\ last.result.relevant_content = Retrieved.results
       /\ last.result.search_terms = Retrieved.search_terms
=============================================================================
